---- MODULE Spec2Model ----
(***************************************************************************)
(* Model of the extraction-and-aggregation core of DISE-AI:                *)
(*   - SummaryManager.classifyArea / calculateStats   (src/unnamed/part_000)*)
(*   - Utils.calculatePolygonArea                     (src/unnamed/part_000)*)
(*   - ColorAlgorithm.convexHull / simplifyRDP, both the region-grow       *)
(*     implementation (src/unnamed/part_000) and the mask-segmenter        *)
(*     implementation (src/src/components/AnnotationModal.tsx)             *)
(*   - ColorAlgorithm.findBoundary / floodFill / traceContour              *)
(*                                                   (src/unnamed/part_000) *)
(*                                                                         *)
(* Numbers.  JavaScript numbers are modelled as exact rationals            *)
(* [n |-> numerator, d |-> denominator], d > 0, kept in lowest terms; NaN  *)
(* is the value with d = 0 and every comparison with it is false, as in    *)
(* JavaScript.  Distances (square roots) are modelled by their squares,    *)
(* [n, d] standing for sqrt(n / d), and compared by cross-multiplication.  *)
(* Strings are sequences of one-character strings.                         *)
(***************************************************************************)
EXTENDS Integers, Sequences, FiniteSets, TLC

VARIABLES
    \* SummaryManager
    annotationsMap,   \* Map<number, AnnotationData>, in insertion order
    stats,            \* the AnalysisStats returned by calculateStats, or NoStats
    areaArg,          \* the argument handed to classifyArea
    areaClass,        \* the bucket classifyArea returned, or NoClass
    \* geometry kernel
    points,           \* the Point[] handed to a geometry function
    geomOp,           \* which geometry function ran last ("none" before any)
    geomEps,          \* the epsilon handed to simplifyRDP (a distance)
    geomOut,          \* what that function returned
    \* region-grow segmenter (ColorAlgorithm.findBoundary of part_000)
    data,             \* the RGBA buffer, one colour per pixel index
    target,           \* targetColor
    tol,              \* tolerance
    seedPoint,        \* the seed, in half pixels before rounding, pixels after
    start,            \* floodFill's start (relocated by the window search)
    visited,          \* floodFill's visited Set<string>, in insertion order
    queue,            \* floodFill's work queue
    pc,               \* where findBoundary / floodFill stands
    outcome,          \* how findBoundary settled: a rejection or a polygon
    \* mask segmenter (the model-backed ColorAlgorithm)
    model,            \* ColorAlgorithm.model: "null" or "loaded"
    aiOp,             \* the method called: "findBoundary" or "scanFrame"
    aiPc,             \* where that call stands
    imageSize,        \* imageData.width and imageData.height
    aiSeed,           \* seedPoint of findBoundary
    aiEpsilon,        \* epsilon of findBoundary
    maskData,         \* the thresholded prediction, MODEL_SIZE * MODEL_SIZE
    aiOutcome,        \* what the call returned or threw
    \* video analyzer (VideoAnalyzer.analyzeVideo)
    promise,          \* the promise analyzeVideo returned, and its value
    canvas,           \* canvas.width and canvas.height
    duration,         \* video.duration, in seconds
    currentTime,      \* the sampler's currentTime
    videoPos,         \* the frame the video element shows: a time, in seconds
    pendingSeeks,     \* the seeks issued whose seeked event has not fired
    scans,            \* the scanFrame calls in flight, with the frame each got
    results,          \* results
    progress,         \* the calls of onProgress so far
    seekLog,          \* every value assigned to video.currentTime so far
    events,           \* what has happened to the run: failures and requests
    \* the callers of ColorAlgorithm.loadModel
    callerPc,         \* where each call of findBoundary / scanFrame stands
    loadCount,        \* how many times the model was loaded and warmed up
    \* the chat of the page
    published,        \* the stats of the last analysis_result message posted
    srcDataUrls,      \* the srcDataUrl of each record stored in the collection
    \* the analysis tasks of the page (startAnalysis and its checkStatus loop)
    shouldStop,       \* shouldStopRef.current
    appState,         \* appState
    isLoading,        \* isLoading
    taskPc,           \* where the startAnalysis call of each task stands
    retryCount,       \* retryCount of each task's checkStatus
    serverStatus,     \* the status the server has for each task
    taskOutcome,      \* how the startAnalysis call of each task ended
    stoppedTasks,     \* the tasks that were in progress when the user stopped
    sawFailed,        \* the tasks whose loop has received status "failed"
    pollsAfterFailed  \* the tasks polled again after a "failed" status

statsVars == <<annotationsMap, stats, areaArg, areaClass>>
geomVars == <<points, geomOp, geomEps, geomOut>>
floodVars == <<data, target, tol, seedPoint, start, visited, queue, pc, outcome>>
aiVars == <<model, aiOp, aiPc, imageSize, aiSeed, aiEpsilon, maskData, aiOutcome>>
videoVars == <<promise, canvas, duration, currentTime, videoPos, pendingSeeks, scans,
               results, progress, seekLog, events>>
loadVars == <<callerPc, loadCount>>
chatVars == <<published, srcDataUrls>>
pollVars == <<shouldStop, appState, isLoading, taskPc, retryCount, serverStatus,
              taskOutcome, stoppedTasks, sawFailed, pollsAfterFailed>>
appVars == <<loadVars, chatVars, pollVars>>
vars == <<statsVars, geomVars, floodVars, aiVars, videoVars, appVars>>

----------------------------------------------------------------------------
(* Numbers *)

Abs(i) == IF i < 0 THEN -i ELSE i

RECURSIVE Gcd(_, _)
Gcd(a, b) == IF b = 0 THEN a ELSE Gcd(b, a % b)

RECURSIVE Pow10(_)
Pow10(k) == IF k = 0 THEN 1 ELSE 10 * Pow10(k - 1)

NaN == [n |-> 0, d |-> 0]
IsNaN(r) == r.d = 0

\* n / d in lowest terms with a positive denominator (d # 0)
Rat(n, d) ==
    LET g == Gcd(Abs(n), Abs(d))
        s == IF d < 0 THEN -1 ELSE 1
    IN  [n |-> s * (n \div g), d |-> s * (d \div g)]

Num(i) == [n |-> i, d |-> 1]

Range(f) == { f[i] : i \in DOMAIN f }

RSub(a, b) == IF IsNaN(a) \/ IsNaN(b) THEN NaN
              ELSE Rat(a.n * b.d - b.n * a.d, a.d * b.d)
RMul(a, b) == IF IsNaN(a) \/ IsNaN(b) THEN NaN
              ELSE Rat(a.n * b.n, a.d * b.d)
\* a / b for b # 0 (the only use divides by a positive number)
RDiv(a, b) == IF IsNaN(a) \/ IsNaN(b) THEN NaN
              ELSE Rat(a.n * b.d, a.d * b.n)

RAdd(a, b) == IF IsNaN(a) \/ IsNaN(b) THEN NaN
              ELSE Rat(a.n * b.d + b.n * a.d, a.d * b.d)

RLt(a, b) == ~IsNaN(a) /\ ~IsNaN(b) /\ a.n * b.d < b.n * a.d
RGt(a, b) == RLt(b, a)
RGe(a, b) == ~IsNaN(a) /\ ~IsNaN(b) /\ a.n * b.d >= b.n * a.d
RLe(a, b) == RGe(b, a)

----------------------------------------------------------------------------
(* Strings and parseFloat *)

Digits == <<"0", "1", "2", "3", "4", "5", "6", "7", "8", "9">>
IsDigit(c) == \E i \in 1..10 : Digits[i] = c
DigitVal(c) == (CHOOSE i \in 1..10 : Digits[i] = c) - 1

\* the number of decimal digits of s starting at position i
RECURSIVE CountDigits(_, _)
CountDigits(s, i) ==
    IF i <= Len(s) /\ IsDigit(s[i]) THEN 1 + CountDigits(s, i + 1) ELSE 0

\* the value of the k decimal digits of s starting at position i
RECURSIVE DigitsVal(_, _, _)
DigitsVal(s, i, k) ==
    IF k = 0 THEN 0
    ELSE 10 * DigitsVal(s, i, k - 1) + DigitVal(s[i + k - 1])

\* ECMAScript parseFloat on strings without white space, exponent or
\* "Infinity": the longest prefix [+-]? digits [. digits] (or [+-]? . digits)
\* is the number, whatever follows is ignored; no such prefix gives NaN.
parseFloat(s) ==
    LET signLen == IF Len(s) >= 1 /\ s[1] \in {"-", "+"} THEN 1 ELSE 0
        sign    == IF signLen = 1 /\ s[1] = "-" THEN -1 ELSE 1
        intLen  == CountDigits(s, signLen + 1)
        dotPos  == signLen + intLen + 1
        hasDot  == dotPos <= Len(s) /\ s[dotPos] = "."
        fracLen == IF hasDot THEN CountDigits(s, dotPos + 1) ELSE 0
    IN  IF intLen = 0 /\ fracLen = 0 THEN NaN
        ELSE Rat(sign * (DigitsVal(s, signLen + 1, intLen) * Pow10(fracLen)
                         + DigitsVal(s, dotPos + 1, fracLen)),
                 Pow10(fracLen))

\* a missing area field
Undefined == <<"undefined">>
\* JavaScript truthiness of a string-or-undefined value
Truthy(a) == a # Undefined /\ a # <<>>

----------------------------------------------------------------------------
(* SummaryManager *)

MaxRecords == 3

\* area strings as the program stores them (toFixed(1), toString()) and as a
\* server or an edit can leave them: empty, zero, negative, unparseable,
\* a number followed by a unit
AreaStrings ==
    { <<>>,
      <<"0">>,
      <<"-", "5">>,
      <<"x">>,
      <<"9", "0", "p", "x">>,
      <<"2", "5", "0", "0", "0">>,
      <<"5", "0", "0", "0", "0">>,
      <<"1", "0", "0", "0", "0", "0">>,
      <<"2", "4", "9", "9", "9", ".", "9">>,
      <<"5", "0", "0", "0", "0", ".", "1">> }

\* AnnotationData, cut to the fields calculateStats reads or returns
AnnotationRecord(t, a) == [time |-> t, area |-> a]

\* a Map<number, AnnotationData>: its values in insertion order, one per key.
\* calculateStats reads neither the keys nor the time fields, so the k-th
\* inserted record is keyed k - 1 and only the areas vary.
MapOf(areas) == [i \in DOMAIN areas |-> AnnotationRecord(i - 1, areas[i])]

\* the four buckets ("小 (S)", "中 (M)", "大 (L)", "極大 (XL)" in the source)
BucketS == "S"
BucketM == "M"
BucketL == "L"
BucketXL == "XL"

StringArg(s) == [type |-> "string", str |-> s, num |-> NaN]
NumberArg(r) == [type |-> "number", str |-> <<>>, num |-> r]

\* fault variant of classifyArea: thresholds compared with <= instead of <
classifyAreaInclusive(area) ==
    LET a == IF area.type = "string" THEN parseFloat(area.str) ELSE area.num
    IN  IF RLe(a, Num(10000)) THEN BucketS
        ELSE IF RLe(a, Num(90000)) THEN BucketM
        ELSE IF RLe(a, Num(400000)) THEN BucketL
        ELSE BucketXL

classifyArea(area) ==
    LET a == IF area.type = "string" THEN parseFloat(area.str) ELSE area.num
    IN  IF RLt(a, Num(10000)) THEN BucketS
        ELSE IF RLt(a, Num(90000)) THEN BucketM
        ELSE IF RLt(a, Num(400000)) THEN BucketL
        ELSE BucketXL

\* fault variant of isValid: the filter forgets the "> 0" test
isValidAnyNumber(item) == Truthy(item.area) /\ ~IsNaN(parseFloat(item.area))

\* the filter predicate of calculateStats
isValid(item) == Truthy(item.area) /\ RGt(parseFloat(item.area), Num(0))

\* Array.prototype.filter
RECURSIVE Filter(_)
Filter(seq) ==
    IF seq = <<>> THEN <<>>
    ELSE IF isValid(Head(seq)) THEN <<Head(seq)>> \o Filter(Tail(seq))
    ELSE Filter(Tail(seq))

\* the comparator (a, b) => parseFloat(a.area) - parseFloat(b.area) is > 0
areaAfter(a, b) == RGt(parseFloat(a.area), parseFloat(b.area))

\* Array.prototype.sort is stable: x goes behind every element it does not
\* precede
RECURSIVE InsertSorted(_, _)
InsertSorted(sorted, x) ==
    IF sorted = <<>> THEN <<x>>
    ELSE IF areaAfter(Head(sorted), x) THEN <<x>> \o sorted
    ELSE <<Head(sorted)>> \o InsertSorted(Tail(sorted), x)

RECURSIVE SortByArea(_)
SortByArea(seq) ==
    IF seq = <<>> THEN <<>>
    ELSE InsertSorted(SortByArea(SubSeq(seq, 1, Len(seq) - 1)), seq[Len(seq)])

\* the placeholder record of the no-valid-record case
Placeholder == AnnotationRecord(0, <<"0">>)

\* fault variant of voteScoreOf: the upper threshold compared with >=
voteScoreInclusive(obstructionPercent) ==
    IF RGe(obstructionPercent, Num(75)) THEN 2
    ELSE IF RGe(obstructionPercent, Num(50)) THEN 1
    ELSE 0

\* the severity score of an obstruction percentage
voteScoreOf(obstructionPercent) ==
    IF RGt(obstructionPercent, Num(75)) THEN 2
    ELSE IF RGe(obstructionPercent, Num(50)) THEN 1
    ELSE 0

\* the severity score startAnalysis gives the obs_pct of the server's worst
\* frame
voteScoreOfResult(obs_pct) ==
    IF RGt(obs_pct, Num(75)) THEN 2
    ELSE IF RGt(obs_pct, Num(50)) THEN 1
    ELSE 0

\* fault variant of tooFew: only an empty collection counts as degenerate
tooFewOnlyEmpty(validData) == Len(validData) < 1

\* the guard of the degenerate result
tooFew(validData) == Len(validData) < 2

calculateStats(map) ==
    LET validData == Filter(map)
    IN  IF tooFew(validData)
        THEN LET singleData == IF Len(validData) = 1 THEN validData[1]
                               ELSE Placeholder
             IN  [error |-> TRUE,
                  smallest |-> singleData,
                  largest |-> singleData,
                  obstructionPercent |-> Num(0),
                  voteScore |-> 0]
        ELSE LET sorted   == SortByArea(validData)
                 smallest == sorted[1]
                 largest  == sorted[Len(sorted)]
                 minArea  == parseFloat(smallest.area)
                 maxArea  == parseFloat(largest.area)
                 obstructionPercent ==
                     IF RGt(maxArea, Num(0))
                     THEN RMul(RDiv(RSub(maxArea, minArea), maxArea), Num(100))
                     ELSE Num(0)
             IN  [error |-> FALSE,
                  smallest |-> smallest,
                  largest |-> largest,
                  obstructionPercent |-> obstructionPercent,
                  voteScore |-> voteScoreOf(obstructionPercent)]

NoStats == [error |-> FALSE, smallest |-> Placeholder, largest |-> Placeholder,
            obstructionPercent |-> NaN, voteScore |-> -1]
NoClass == "none"

ClassifySpan == 12

\* numeric arguments in half units around every threshold, and every string
ClassifyArgs ==
    { NumberArg(Rat(2 * t + j, 2)) :
        t \in {0, 10000, 90000, 400000}, j \in (-ClassifySpan)..ClassifySpan }
    \cup { StringArg(s) : s \in AreaStrings }

----------------------------------------------------------------------------
(* Geometry kernel: Utils.calculatePolygonArea, ColorAlgorithm.convexHull  *)
(* and simplifyRDP                                                         *)

MaxPts == 4

\* pixel coordinates of the points handed to the kernel: three columns of
\* two rows
XCoords == 0..2
YCoords == 0..1

Point(x, y) == [x |-> x, y |-> y]
GridPoints == { Point(x, y) : x \in XCoords, y \in YCoords }

Reverse(seq) == [i \in 1..Len(seq) |-> seq[Len(seq) + 1 - i]]

\* Array.prototype.pop: the array without its last element
Pop(seq) == SubSeq(seq, 1, Len(seq) - 1)

\* fault variant of calculatePolygonArea: Math.abs forgotten
calculatePolygonAreaSigned(pts) ==
    LET n == Len(pts)
        term(i) == LET j == (i % n) + 1
                   IN  pts[i].x * pts[j].y - pts[j].x * pts[i].y
        sum[i \in 0..n] == IF i = 0 THEN 0 ELSE sum[i - 1] + term(i)
    IN  Rat(sum[n], 2)

\* shoelace sum over i = 0..n-1 with j = (i + 1) % n (1-based here), halved,
\* absolute value
calculatePolygonArea(pts) ==
    LET n == Len(pts)
        term(i) == LET j == (i % n) + 1
                   IN  pts[i].x * pts[j].y - pts[j].x * pts[i].y
        sum[i \in 0..n] == IF i = 0 THEN 0 ELSE sum[i - 1] + term(i)
        a == Rat(sum[n], 2)
    IN  Rat(Abs(a.n), a.d)

cross(o, a, b) == (a.x - o.x) * (b.y - o.y) - (a.y - o.y) * (b.x - o.x)

\* fault variant of comparePoints: the tie on x is not broken by y
comparePointsXOnly(a, b) == a.x - b.x

\* the sort comparator (a, b) => a.x - b.x || a.y - b.y
comparePoints(a, b) == IF a.x - b.x # 0 THEN a.x - b.x ELSE a.y - b.y

\* the sort comparator (a, b) => (a.x === b.x ? a.y - b.y : a.x - b.x)
comparePointsAI(a, b) == IF a.x = b.x THEN a.y - b.y ELSE a.x - b.x

\* Array.prototype.sort is stable: p goes behind every element that does
\* not compare greater than it
RECURSIVE InsertPoint(_, _, _)
InsertPoint(ai, sorted, p) ==
    IF sorted = <<>> THEN <<p>>
    ELSE IF (IF ai THEN comparePointsAI(Head(sorted), p)
             ELSE comparePoints(Head(sorted), p)) > 0
         THEN <<p>> \o sorted
         ELSE <<Head(sorted)>> \o InsertPoint(ai, Tail(sorted), p)

RECURSIVE SortPoints(_, _)
SortPoints(ai, pts) ==
    IF pts = <<>> THEN <<>>
    ELSE InsertPoint(ai, SortPoints(ai, Pop(pts)), pts[Len(pts)])

\* fault variant of shouldPop: collinear points are kept (< instead of <=)
shouldPopStrict(chain, p) ==
    /\ Len(chain) >= 2
    /\ cross(chain[Len(chain) - 1], chain[Len(chain)], p) < 0

\* the condition of the while loops that pop a chain
shouldPop(chain, p) ==
    /\ Len(chain) >= 2
    /\ cross(chain[Len(chain) - 1], chain[Len(chain)], p) <= 0

\* while (shouldPop) chain.pop(); chain.push(p)
RECURSIVE PushPoint(_, _)
PushPoint(chain, p) ==
    IF shouldPop(chain, p) THEN PushPoint(Pop(chain), p)
    ELSE Append(chain, p)

\* one chain: the for loop over pts in the order given
RECURSIVE Chain(_)
Chain(pts) ==
    IF pts = <<>> THEN <<>>
    ELSE PushPoint(Chain(Pop(pts)), pts[Len(pts)])

\* Andrew's monotone chain on the sorted points: lower over the points in
\* order, upper over them in reverse, the last point of each dropped
monotoneChain(sorted) ==
    LET lower == Chain(sorted)
        upper == Chain(Reverse(sorted))
    IN  Pop(lower) \o Pop(upper)

\* ColorAlgorithm.convexHull of the region-grow segmenter
convexHull(pts) ==
    IF Len(pts) < 3 THEN pts ELSE monotoneChain(SortPoints(FALSE, pts))

\* ColorAlgorithm.convexHull of the mask segmenter
convexHullAI(pts) ==
    IF Len(pts) < 3 THEN pts ELSE monotoneChain(SortPoints(TRUE, pts))

\* distances, as squares: [n, d] stands for sqrt(n / d)
Dist(n, d) == [n |-> n, d |-> d]
DistGt(a, b) == a.n * b.d > b.n * a.d

\* epsilon = k / 2
MaxEpsHalves == 2
EpsHalves(k) == Dist(k * k, 4)
Epsilons == { EpsHalves(k) : k \in 0..MaxEpsHalves }

\* perpDist of the region-grow segmenter: the distance from p to the line
\* through p1 and p2, and to p1 when the chord has no length
perpDist(p, p1, p2) ==
    LET dx == p2.x - p1.x
        dy == p2.y - p1.y
        num == Abs(dy * p.x - dx * p.y + p2.x * p1.y - p2.y * p1.x)
    IN  IF dx = 0 /\ dy = 0
        THEN Dist((p.x - p1.x) * (p.x - p1.x) + (p.y - p1.y) * (p.y - p1.y), 1)
        ELSE Dist(num * num, dx * dx + dy * dy)

\* perpendicularDistance of the mask segmenter: twice the triangle area
\* over the chord length, and 0 when the chord has no length
perpendicularDistance(p, p1, p2) ==
    LET area2 == Abs(p1.x * p2.y + p2.x * p.y + p.x * p1.y
                     - p2.x * p1.y - p.x * p2.y - p1.x * p.y)
        bottom2 == (p1.x - p2.x) * (p1.x - p2.x) + (p1.y - p2.y) * (p1.y - p2.y)
    IN  IF bottom2 = 0 THEN Dist(0, 1) ELSE Dist(area2 * area2, bottom2)

\* the for loop of simplifyRDP: the first index in 1 < i < end (1-based:
\* 2..Len - 1) of greatest distance, with that distance; index 0 (here 1)
\* and distance 0 when no distance is positive
FarthestPoint(ai, pts) ==
    LET end == Len(pts)
        d(i) == IF ai THEN perpendicularDistance(pts[i], pts[1], pts[end])
                ELSE perpDist(pts[i], pts[1], pts[end])
        best[i \in 1..(end - 1)] ==
            IF i = 1 THEN [index |-> 1, dmax |-> Dist(0, 1)]
            ELSE IF DistGt(d(i), best[i - 1].dmax)
                 THEN [index |-> i, dmax |-> d(i)]
                 ELSE best[i - 1]
    IN  best[end - 1]

\* fault variant of joinHalves: the first point of res1 is dropped instead
\* of its last
joinHalvesDropFirst(res1, res2) == Tail(res1) \o res2

\* res1.slice(0, res1.length - 1).concat(res2)
joinHalves(res1, res2) == SubSeq(res1, 1, Len(res1) - 1) \o res2

\* fault variant of simplifyRDP: the comparison with epsilon is turned
\* round, the sequence is split when the farthest point is near
RECURSIVE simplifyRDPSplitsNear(_, _)
simplifyRDPSplitsNear(pts, epsilon) ==
    IF Len(pts) < 3 THEN pts
    ELSE LET far == FarthestPoint(FALSE, pts)
         IN  IF DistGt(epsilon, far.dmax) /\ far.index > 1
             THEN joinHalves(simplifyRDPSplitsNear(SubSeq(pts, 1, far.index), epsilon),
                             simplifyRDPSplitsNear(SubSeq(pts, far.index, Len(pts)),
                                                   epsilon))
             ELSE <<pts[1], pts[Len(pts)]>>

\* ColorAlgorithm.simplifyRDP of the region-grow segmenter
RECURSIVE simplifyRDP(_, _)
simplifyRDP(pts, epsilon) ==
    IF Len(pts) < 3 THEN pts
    ELSE LET far == FarthestPoint(FALSE, pts)
         IN  IF DistGt(far.dmax, epsilon)
             THEN joinHalves(simplifyRDP(SubSeq(pts, 1, far.index), epsilon),
                             simplifyRDP(SubSeq(pts, far.index, Len(pts)), epsilon))
             ELSE <<pts[1], pts[Len(pts)]>>

\* ColorAlgorithm.simplifyRDP of the mask segmenter
RECURSIVE simplifyRDPAI(_, _)
simplifyRDPAI(pts, epsilon) ==
    IF Len(pts) <= 2 THEN pts
    ELSE LET far == FarthestPoint(TRUE, pts)
         IN  IF DistGt(far.dmax, epsilon)
             THEN joinHalves(simplifyRDPAI(SubSeq(pts, 1, far.index), epsilon),
                             simplifyRDPAI(SubSeq(pts, far.index, Len(pts)), epsilon))
             ELSE <<pts[1], pts[Len(pts)]>>

----------------------------------------------------------------------------
(* Region-grow segmenter: ColorAlgorithm.findBoundary, floodFill,          *)
(* colorMatch and traceContour                                             *)

Width == 4
Height == 3

\* the two colours of the buffers drawn (RGBA)
Background == <<0, 0, 0, 255>>
Foreground == <<6, 8, 0, 255>>

\* the target colours drawn: the first is 3 from the background and more
\* than 8 from the foreground, the second 3 from the foreground and more
\* than 7 from the background
Targets == {<<3, 0, 0>>, <<6, 5, 0>>}

\* the tolerances drawn: under 2 no pixel matches a target, under 3 the
\* pixels of the nearer colour match it, at distance exactly tolerance
Tolerances == {2, 3}

\* how many foreground pixels a buffer drawn may hold
ForegroundCounts == 0..2

\* Math.round of k / 2 for k >= 0 (halves round up)
MathRound(halves) == (halves + 1) \div 2

\* Number.prototype.toString of an integer n >= 0
RECURSIVE NumStr(_)
NumStr(n) ==
    IF n < 10 THEN <<Digits[n + 1]>>
    ELSE NumStr(n \div 10) \o <<Digits[(n % 10) + 1]>>

\* const key = (x, y) => `${x},${y}`
key(x, y) == NumStr(x) \o <<",">> \o NumStr(y)

\* key.split(",").map(Number) on a key of two non-negative integers
ParseKey(k) ==
    LET comma == CHOOSE i \in 1..Len(k) : k[i] = ","
    IN  Point(DigitsVal(k, 1, comma - 1),
              DigitsVal(k, comma + 1, Len(k) - comma))

\* Set.prototype.has on the insertion-ordered visited set
Has(set, k) == \E i \in 1..Len(set) : set[i] = k

\* Set.prototype.add
Add(set, k) == IF Has(set, k) THEN set ELSE Append(set, k)

\* const getIndex = (x, y) => (y * width + x) * 4
getIndex(x, y) == (y * Width + x) * 4

\* data[i]: a byte of the buffer, or undefined past its end
NoByte == -1
ByteAt(buf, i) ==
    IF i >= 0 /\ i < 4 * Len(buf) THEN buf[(i \div 4) + 1][(i % 4) + 1]
    ELSE NoByte

\* fault variant of colorMatch: dist < tol instead of dist <= tol
colorMatchStrict(r, g, b, tr, tg, tb, tolerance) ==
    /\ r # NoByte /\ g # NoByte /\ b # NoByte
    /\ tolerance >= 0
    /\ (r - tr) * (r - tr) + (g - tg) * (g - tg) + (b - tb) * (b - tb)
           < tolerance * tolerance

\* sqrt((r-tr)^2 + (g-tg)^2 + (b-tb)^2) <= tol; an undefined byte makes the
\* distance NaN and the comparison false
colorMatch(r, g, b, tr, tg, tb, tolerance) ==
    /\ r # NoByte /\ g # NoByte /\ b # NoByte
    /\ tolerance >= 0
    /\ (r - tr) * (r - tr) + (g - tg) * (g - tg) + (b - tb) * (b - tb)
           <= tolerance * tolerance

\* this.colorMatch(data[idx], data[idx + 1], data[idx + 2], targetR, ...)
MatchAt(buf, idx, tgt, tolerance) ==
    colorMatch(ByteAt(buf, idx), ByteAt(buf, idx + 1), ByteAt(buf, idx + 2),
               tgt[1], tgt[2], tgt[3], tolerance)

InBounds(x, y) == x >= 0 /\ x < Width /\ y >= 0 /\ y < Height

\* the inner for loop of the window search from column x on: the first
\* in-bounds matching pixel of the row becomes start, is added to visited
\* and pushed, and the loop breaks
RECURSIVE ScanRow(_, _, _, _, _, _)
ScanRow(buf, tgt, tolerance, y, x, st) ==
    IF ~(x <= st.start.x + 2) THEN st
    ELSE IF InBounds(x, y) /\ MatchAt(buf, getIndex(x, y), tgt, tolerance)
         THEN [start |-> Point(x, y),
               visited |-> Add(st.visited, key(x, y)),
               queue |-> Append(st.queue, Point(x, y))]
         ELSE ScanRow(buf, tgt, tolerance, y, x + 1, st)

\* the outer for loop from row y on; it breaks after a row as soon as the
\* queue is not empty
RECURSIVE ScanRows(_, _, _, _, _)
ScanRows(buf, tgt, tolerance, y, st) ==
    IF ~(y <= st.start.y + 2) THEN st
    ELSE LET after == ScanRow(buf, tgt, tolerance, y, st.start.x - 2, st)
         IN  IF Len(after.queue) > 0 THEN after
             ELSE ScanRows(buf, tgt, tolerance, y + 1, after)

\* floodFill up to its while loop: queue = [start]; a matching seed is
\* marked visited, otherwise the window is searched
floodFillStart(buf, seed, tgt, tolerance) ==
    LET st0 == [start |-> seed, visited |-> <<>>, queue |-> <<seed>>]
    IN  IF ~MatchAt(buf, getIndex(seed.x, seed.y), tgt, tolerance)
        THEN LET st1 == ScanRows(buf, tgt, tolerance, seed.y - 2, st0)
             IN  [start |-> st1.start, visited |-> st1.visited,
                  queue |-> st1.queue, returns |-> Len(st1.queue) = 0]
        ELSE [start |-> seed, visited |-> Add(st0.visited, key(seed.x, seed.y)),
              queue |-> st0.queue, returns |-> FALSE]

\* fault variant of canAbsorb: the colour of the neighbour is not tested
canAbsorbAnyColour(buf, tgt, tolerance, vis, nx, ny) ==
    /\ InBounds(nx, ny)
    /\ ~Has(vis, key(nx, ny))

\* fault variant of canAbsorb: the visited set is not consulted
canAbsorbVisitedAgain(buf, tgt, tolerance, vis, nx, ny) ==
    /\ InBounds(nx, ny)
    /\ MatchAt(buf, getIndex(nx, ny), tgt, tolerance)

\* the test a neighbour passes to be absorbed
canAbsorb(buf, tgt, tolerance, vis, nx, ny) ==
    /\ InBounds(nx, ny)
    /\ ~Has(vis, key(nx, ny))
    /\ MatchAt(buf, getIndex(nx, ny), tgt, tolerance)

\* the neighbours of (x, y) in the order the loop visits them
neighbors(x, y) == <<Point(x, y - 1), Point(x, y + 1), Point(x - 1, y), Point(x + 1, y)>>

\* the for loop over the neighbours from the i-th on
RECURSIVE Absorb(_, _, _, _, _, _)
Absorb(buf, tgt, tolerance, nbrs, i, st) ==
    IF i > Len(nbrs) THEN st
    ELSE LET n == nbrs[i]
         IN  IF canAbsorb(buf, tgt, tolerance, st.visited, n.x, n.y)
             THEN Absorb(buf, tgt, tolerance, nbrs, i + 1,
                         [visited |-> Add(st.visited, key(n.x, n.y)),
                          queue |-> Append(st.queue, n)])
             ELSE Absorb(buf, tgt, tolerance, nbrs, i + 1, st)

\* the directions traceContour looks in
dirs == <<Point(0, -1), Point(1, 0), Point(0, 1), Point(-1, 0)>>

\* fault variant of isBoundary: a neighbour out of bounds does not count
isBoundaryInsideOnly(vis, k) ==
    LET p == ParseKey(k)
    IN  \E i \in 1..Len(dirs) :
            LET nx == p.x + dirs[i].x
                ny == p.y + dirs[i].y
            IN  /\ nx >= 0 /\ nx < Width /\ ny >= 0 /\ ny < Height
                /\ ~Has(vis, key(nx, ny))

isBoundary(vis, k) ==
    LET p == ParseKey(k)
    IN  \E i \in 1..Len(dirs) :
            LET nx == p.x + dirs[i].x
                ny == p.y + dirs[i].y
            IN  \/ nx < 0 \/ nx >= Width \/ ny < 0 \/ ny >= Height
                \/ ~Has(vis, key(nx, ny))

\* traceContour: the visited pixels, in the order of the set, that have a
\* neighbour out of bounds or not visited
traceContour(vis) ==
    LET trace[i \in 0..Len(vis)] ==
            IF i = 0 THEN <<>>
            ELSE IF isBoundary(vis, vis[i])
                 THEN Append(trace[i - 1], ParseKey(vis[i]))
                 ELSE trace[i - 1]
    IN  trace[Len(vis)]

\* reject(new Error(...)): findBoundary has two messages, one for an empty
\* region and one for fewer than 3 boundary pixels, named here by meaning
Rejected(why) == [kind |-> why, polygon |-> <<>>]

\* resolve(simplifiedPoints)
Resolved(polygon) == [kind |-> "resolved", polygon |-> polygon]

\* findBoundary after floodFill has returned
settle(vis, epsilon) ==
    IF Len(vis) = 0 THEN Rejected("no matching colour region")
    ELSE LET boundaryPixels == traceContour(vis)
         IN  IF Len(boundaryPixels) < 3 THEN Rejected("no closed region")
             ELSE Resolved(simplifyRDP(convexHull(boundaryPixels), epsilon))

----------------------------------------------------------------------------
(* Mask segmenter: ColorAlgorithm.loadModel, findBoundary, scanFrame and   *)
(* extractEdgesFromMask of the model-backed ColorAlgorithm                 *)

\* MODEL_SIZE, the side of the square mask the network returns: 256 in the
\* source, a small side here
MODEL_SIZE == 8

\* maskData[idx] is truthy
On(mask, idx) == mask[idx + 1] # 0

\* fault variant of isEdgePixel: the neighbour below is not looked at
isEdgePixelNotBelow(mask, width, x, y) ==
    /\ On(mask, y * width + x)
    /\ \/ ~On(mask, (y - 1) * width + x)
       \/ ~On(mask, y * width + x - 1)
       \/ ~On(mask, y * width + x + 1)

\* the test of extractEdgesFromMask: an on pixel with a 4-neighbour off
isEdgePixel(mask, width, x, y) ==
    /\ On(mask, y * width + x)
    /\ \/ ~On(mask, (y - 1) * width + x)
       \/ ~On(mask, (y + 1) * width + x)
       \/ ~On(mask, y * width + x - 1)
       \/ ~On(mask, y * width + x + 1)

\* extractEdgesFromMask: the two for loops, y from 1 to height - 2 and x
\* from 1 to width - 2, pushing the edge pixels in that order
extractEdgesFromMask(mask, width, height) ==
    LET w_minus_1 == width - 1
        h_minus_1 == height - 1
        columns == IF w_minus_1 > 1 THEN w_minus_1 - 1 ELSE 0
        rows == IF h_minus_1 > 1 THEN h_minus_1 - 1 ELSE 0
        xOf(k) == 1 + ((k - 1) % columns)
        yOf(k) == 1 + ((k - 1) \div columns)
        pts[k \in 0..(rows * columns)] ==
            IF k = 0 THEN <<>>
            ELSE IF isEdgePixel(mask, width, xOf(k), yOf(k))
                 THEN Append(pts[k - 1], Point(xOf(k), yOf(k)))
                 ELSE pts[k - 1]
    IN  pts[rows * columns]

\* sX = imageData.width / MODEL_SIZE, sY = imageData.height / MODEL_SIZE
scaleOf(side) == Rat(side, MODEL_SIZE)

\* p.x * scaleX: the polygons here have whole coordinates
Scaled(c, scale) == RMul(Num(c), scale).n

\* hullPoints.map((p) => ({ x: p.x * scaleX, y: p.y * scaleY }))
originalSize(pts, scaleX, scaleY) ==
    [i \in 1..Len(pts) |-> Point(Scaled(pts[i].x, scaleX), Scaled(pts[i].y, scaleY))]

\* the filter of findBoundary: dist < detectionRadius, both sides squared
withinRadius(p, scaledSeed) ==
    LET dx == RSub(Num(p.x), scaledSeed.x)
        dy == RSub(Num(p.y), scaledSeed.y)
        detectionRadius == Rat(MODEL_SIZE, 2)
    IN  RLt(RAdd(RMul(dx, dx), RMul(dy, dy)),
            RMul(detectionRadius, detectionRadius))

\* Array.prototype.filter with that test
validPointsOf(edgePoints, scaledSeed) ==
    LET keep[i \in 0..Len(edgePoints)] ==
            IF i = 0 THEN <<>>
            ELSE IF withinRadius(edgePoints[i], scaledSeed)
                 THEN Append(keep[i - 1], edgePoints[i])
                 ELSE keep[i - 1]
    IN  keep[Len(edgePoints)]

\* fault variant of enoughNear: 10 points are enough
enoughNearFrom10(validPoints) == Len(validPoints) >= 10

\* validPoints.length > 10
enoughNear(validPoints) == Len(validPoints) > 10

\* findBoundary after the model has answered: the steps on the mask, with
\* the helpers it called
findBoundaryAI(mask, size, seed, epsilon) ==
    LET scaleX == scaleOf(size.width)
        scaleY == scaleOf(size.height)
        scaledSeed == [x |-> RDiv(Num(seed.x), scaleX), y |-> RDiv(Num(seed.y), scaleY)]
        edgePoints == extractEdgesFromMask(mask, MODEL_SIZE, MODEL_SIZE)
        validPoints == validPointsOf(edgePoints, scaledSeed)
        finalPoints == IF enoughNear(validPoints) THEN validPoints ELSE edgePoints
        hullPoints == convexHullAI(finalPoints)
    IN  IF Len(edgePoints) = 0
        THEN [kind |-> "throws", error |-> "no region detected", area |-> Num(0),
              polygon |-> <<>>, hullInput |-> <<>>,
              calls |-> <<"extractEdgesFromMask">>]
        ELSE [kind |-> "returns", error |-> "", area |-> Num(0),
              polygon |-> simplifyRDPAI(originalSize(hullPoints, scaleX, scaleY), epsilon),
              hullInput |-> finalPoints,
              calls |-> <<"extractEdgesFromMask", "convexHull", "simplifyRDP">>]

\* Number.prototype.toFixed(f) of r >= 0: the digits of the integer n
\* nearest to r * 10^f, the larger n on a tie, with f of them after the point
toFixed(r, f) ==
    LET unit == Pow10(f)
        n == (2 * r.n * unit + r.d) \div (2 * r.d)
        fraction == NumStr(n % unit)
        zeros == [i \in 1..(f - Len(fraction)) |-> "0"]
    IN  IF f = 0 THEN NumStr(n)
        ELSE NumStr(n \div unit) \o <<".">> \o zeros \o fraction

\* the counting loop of scanFrame
whitePixelsOf(mask) ==
    LET count[i \in 0..Len(mask)] ==
            IF i = 0 THEN 0
            ELSE IF On(mask, i - 1) THEN count[i - 1] + 1 ELSE count[i - 1]
    IN  count[Len(mask)]

\* fault variant of largeEnough: 20 on pixels are enough
largeEnoughFrom20(whitePixels) == whitePixels >= 20

\* whitePixels > 20
largeEnough(whitePixels) == whitePixels > 20

\* the epsilon scanFrame passes to simplifyRDP: 3.0
ScanEpsilon == Dist(9, 1)

\* scanFrame after the model has answered
scanFrameAI(mask, size) ==
    LET scaleX == scaleOf(size.width)
        scaleY == scaleOf(size.height)
        whitePixels == whitePixelsOf(mask)
        realArea == RMul(RMul(Num(whitePixels), scaleX), scaleY)
        edgePoints == extractEdgesFromMask(mask, MODEL_SIZE, MODEL_SIZE)
        hullPoints == convexHullAI(edgePoints)
        area == parseFloat(toFixed(realArea, 1))
    IN  IF ~largeEnough(whitePixels)
        THEN [kind |-> "returns", error |-> "", area |-> area,
              polygon |-> <<>>, hullInput |-> <<>>, calls |-> <<>>]
        ELSE IF ~(Len(edgePoints) > 0)
        THEN [kind |-> "returns", error |-> "", area |-> area,
              polygon |-> <<>>, hullInput |-> <<>>,
              calls |-> <<"extractEdgesFromMask">>]
        ELSE [kind |-> "returns", error |-> "", area |-> area,
              polygon |-> simplifyRDPAI(originalSize(hullPoints, scaleX, scaleY),
                                        ScanEpsilon),
              hullInput |-> edgePoints,
              calls |-> <<"extractEdgesFromMask", "convexHull", "simplifyRDP">>]

----------------------------------------------------------------------------
(* Video analyzer: VideoAnalyzer.analyzeVideo                              *)

\* const FPS_TO_SAMPLE = 1
FPS_TO_SAMPLE == 1

\* const interval = 1 / FPS_TO_SAMPLE
interval == 1 \div FPS_TO_SAMPLE

\* fault variant of finished: the sample at the duration itself is left out
finishedAtDuration(time, length) == RGe(Num(time), length)

\* the test of processNextFrame: currentTime > duration
finished(time, length) == RGt(Num(time), length)

\* Math.round of a number that is not negative; NaN stays NaN
MathRoundOf(r) == IF IsNaN(r) THEN NaN ELSE Num((2 * r.n + r.d) \div (2 * r.d))

\* Math.round((currentTime / duration) * 100); 0 / 0 is NaN
percentOf(time, length) ==
    IF length.n = 0 /\ time = 0 THEN NaN
    ELSE MathRoundOf(RMul(RDiv(Num(time), length), Num(100)))

\* resultItem
resultItemOf(time, analysis) ==
    [time |-> toFixed(Num(time), 2),
     area |-> toFixed(analysis.area, 1),
     polygon |-> analysis.polygon]

\* the frame a seek to time t leaves the video on: the last frame when t
\* is past the end
frameAt(t, length) == IF RGt(Num(t), length) THEN length ELSE Num(t)

\* resolve and reject settle a pending promise and leave a settled one
settled(p, state, value) ==
    IF p.state = "pending" THEN [state |-> state, value |-> value] ELSE p

----------------------------------------------------------------------------
(* Idle values of the components a specification does not exercise *)

StatsIdle ==
    /\ annotationsMap = <<>>
    /\ stats = NoStats
    /\ areaArg = NumberArg(Num(0))
    /\ areaClass = NoClass

GeomIdle ==
    /\ points = <<>>
    /\ geomOp = "none"
    /\ geomEps = Num(0)
    /\ geomOut = <<>>

FloodIdle ==
    /\ data = <<>>
    /\ target = <<0, 0, 0>>
    /\ tol = 0
    /\ seedPoint = [x |-> 0, y |-> 0]
    /\ start = [x |-> 0, y |-> 0]
    /\ visited = <<>>
    /\ queue = <<>>
    /\ pc = "idle"
    /\ outcome = [kind |-> "none", polygon |-> <<>>]

NoSize == [width |-> 0, height |-> 0]
NoOutcome ==
    [kind |-> "none", error |-> "", area |-> Num(0), polygon |-> <<>>,
     hullInput |-> <<>>, calls |-> <<>>]

\* no call of the mask segmenter in progress
AiAtRest ==
    /\ aiOp = "none"
    /\ aiPc = "idle"
    /\ imageSize = NoSize
    /\ aiSeed = Point(0, 0)
    /\ aiEpsilon = Dist(0, 1)
    /\ maskData = <<>>
    /\ aiOutcome = NoOutcome

AiIdle == model = "null" /\ AiAtRest

NoPromise == [state |-> "none", value |-> <<>>]

\* analyzeVideo has not been called
VideoIdle ==
    /\ promise = NoPromise
    /\ canvas = NoSize
    /\ duration = Num(0)
    /\ currentTime = 0
    /\ videoPos = Num(0)
    /\ pendingSeeks = <<>>
    /\ scans = <<>>
    /\ results = <<>>
    /\ progress = <<>>
    /\ seekLog = <<>>
    /\ events = {}

\* the calls of findBoundary and scanFrame that may be in progress together
MaxCallers == 3
Callers == 1..MaxCallers

\* no call of the model-backed ColorAlgorithm is in progress, nothing loaded
LoadIdle ==
    /\ callerPc = [c \in Callers |-> "idle"]
    /\ loadCount = 0

\* no analysis_result message has been posted
NoObject == [kind |-> "none", index |-> 0, name |-> "none"]
NoMessage ==
    [by |-> "none", obstructionPercent |-> NaN, voteScore |-> -1,
     smallest |-> NoObject, largest |-> NoObject,
     smallestUrl |-> "none", largestUrl |-> "none"]
ChatIdle == published = NoMessage /\ srcDataUrls = <<>>

\* the analyses the user may start one after another
MaxTasks == 2
Tasks == 1..MaxTasks

\* the page as mounted: nothing asked for yet
PollIdle ==
    /\ shouldStop = FALSE
    /\ appState = "WAITING"
    /\ isLoading = FALSE
    /\ taskPc = [t \in Tasks |-> "idle"]
    /\ retryCount = [t \in Tasks |-> 0]
    /\ serverStatus = [t \in Tasks |-> "none"]
    /\ taskOutcome = [t \in Tasks |-> "none"]
    /\ stoppedTasks = {}
    /\ sawFailed = {}
    /\ pollsAfterFailed = {}

AppIdle == LoadIdle /\ ChatIdle /\ PollIdle

----------------------------------------------------------------------------
(* SummaryManager.calculateStats applied to every collection *)

InitStats == StatsIdle /\ GeomIdle /\ FloodIdle /\ AiIdle /\ VideoIdle /\ AppIdle

CalculateStats ==
    /\ stats = NoStats
    /\ \E k \in 0..MaxRecords :
         \E areas \in [1..k -> AreaStrings \cup {Undefined}] :
            annotationsMap' = MapOf(areas)
    /\ stats' = calculateStats(annotationsMap')
    /\ UNCHANGED <<areaArg, areaClass, geomVars, floodVars, aiVars, videoVars, appVars>>

NextStats == CalculateStats

SpecStats == InitStats /\ [][NextStats]_vars

(* SummaryManager.classifyArea applied to every argument *)

(* The analysis_result messages of the page: startAnalysis posts the        *)
(* server's result, handleModalSave the recomputed statistics              *)

InitPublish == StatsIdle /\ GeomIdle /\ FloodIdle /\ AiIdle /\ VideoIdle /\ AppIdle

\* the largest obstruction percentage a server result is drawn with
MaxPercent == 100

\* obstruction percentages in half units
ServerPercents == {Rat(k, 2) : k \in 0..(2 * MaxPercent)}

\* the areas of the worst and the best frame of a server result
ServerAreas == { <<"2", "5", "0", "0", "0">>, <<"5", "0", "0", "0", "0">> }

\* the srcDataUrl values told apart: the frame image of the server and the
\* overlay images generateOverlayImage draws for a record
FrameImage == "image"
OverlayOf(which) ==
    IF which = "largest" THEN "overlay of largest" ELSE "overlay of smallest"

\* the stats of a message: who built them, the percentage, the score, the
\* objects smallest and largest refer to and their srcDataUrl
MessageOf(by, obstructionPercent, voteScore, objects, urls) ==
    [by |-> by, obstructionPercent |-> obstructionPercent, voteScore |-> voteScore,
     smallest |-> objects.smallest, largest |-> objects.largest,
     smallestUrl |-> urls.smallest, largestUrl |-> urls.largest]

\* an object: the i-th record stored in the collection, or one made by
\* calculateStats
Stored(i) == [kind |-> "stored", index |-> i, name |-> "record"]
Fresh(name) == [kind |-> "fresh", index |-> 0, name |-> name]

\* the objects calculateStats returns as smallest and largest
resultObjects(map) ==
    LET validIndexes == {i \in DOMAIN map : isValid(map[i])}
    IN  IF tooFew(Filter(map))
        THEN LET singleData ==
                     IF Cardinality(validIndexes) = 1
                     THEN Stored(CHOOSE i \in validIndexes : TRUE)
                     ELSE Fresh("placeholder")
             IN  [smallest |-> singleData, largest |-> singleData]
        ELSE [smallest |-> Fresh("smallest"), largest |-> Fresh("largest")]

\* startAnalysis stores the worst and the best frame of the server's result,
\* builds stats from result.worst.obs_pct and posts them
StartAnalysisPublishes ==
    /\ published = NoMessage
    /\ \E worst \in ServerAreas, best \in ServerAreas :
         annotationsMap' = MapOf(<<worst, best>>)
    /\ srcDataUrls' = <<FrameImage, FrameImage>>
    /\ \E obs_pct \in ServerPercents :
         published' = MessageOf("startAnalysis", obs_pct, voteScoreOfResult(obs_pct),
                                [smallest |-> Stored(1), largest |-> Stored(2)],
                                [smallest |-> FrameImage, largest |-> FrameImage])
    /\ UNCHANGED <<stats, areaArg, areaClass, geomVars, floodVars, aiVars, videoVars,
                   loadVars, pollVars>>

\* the srcDataUrl of every stored record after obj.srcDataUrl = url
assign(urls, obj, url) ==
    IF obj.kind = "stored" THEN [urls EXCEPT ![obj.index] = url] ELSE urls

\* handleModalSave stores the edited record, recomputes the statistics of
\* the collection, gives largest and then smallest its overlay image and
\* posts the statistics
HandleModalSavePublishes ==
    /\ published # NoMessage
    /\ \E i \in DOMAIN annotationsMap, area \in AreaStrings :
         /\ annotationsMap' = [annotationsMap EXCEPT ![i].area = area]
         /\ LET newStats == calculateStats(annotationsMap')
                objects == resultObjects(annotationsMap')
                afterLargest == assign(srcDataUrls, objects.largest, OverlayOf("largest"))
            IN  /\ srcDataUrls' = assign(afterLargest, objects.smallest,
                                         OverlayOf("smallest"))
                /\ published' =
                     MessageOf("handleModalSave", newStats.obstructionPercent,
                               newStats.voteScore, objects,
                               [smallest |-> OverlayOf("smallest"),
                                largest |-> IF objects.largest = objects.smallest
                                            THEN OverlayOf("smallest")
                                            ELSE OverlayOf("largest")])
    /\ UNCHANGED <<stats, areaArg, areaClass, geomVars, floodVars, aiVars, videoVars,
                   loadVars, pollVars>>

NextPublish ==
    \/ StartAnalysisPublishes
    \/ HandleModalSavePublishes

SpecPublish == InitPublish /\ [][NextPublish]_vars

----------------------------------------------------------------------------

InitClassify == StatsIdle /\ GeomIdle /\ FloodIdle /\ AiIdle /\ VideoIdle /\ AppIdle

ClassifyArea ==
    /\ areaClass = NoClass
    /\ areaArg' \in ClassifyArgs
    /\ areaClass' = classifyArea(areaArg')
    /\ UNCHANGED <<annotationsMap, stats, geomVars, floodVars, aiVars, videoVars, appVars>>

NextClassify == ClassifyArea

SpecClassify == InitClassify /\ [][NextClassify]_vars

----------------------------------------------------------------------------
(* The geometry kernel applied to every point sequence *)

InitGeom == StatsIdle /\ GeomIdle /\ FloodIdle /\ AiIdle /\ VideoIdle /\ AppIdle

\* the caller's argument: any sequence of at most MaxPts grid points
DrawPoints ==
    \E k \in 0..MaxPts : \E pts \in [1..k -> GridPoints] : points' = pts

ConvexHull ==
    /\ geomOp = "none"
    /\ DrawPoints
    /\ geomOp' = "convexHull"
    /\ geomOut' = convexHull(points')
    /\ UNCHANGED <<geomEps, statsVars, floodVars, aiVars, videoVars, appVars>>

ConvexHullAI ==
    /\ geomOp = "none"
    /\ DrawPoints
    /\ geomOp' = "convexHullAI"
    /\ geomOut' = convexHullAI(points')
    /\ UNCHANGED <<geomEps, statsVars, floodVars, aiVars, videoVars, appVars>>

SimplifyRDP ==
    /\ geomOp = "none"
    /\ DrawPoints
    /\ geomEps' \in Epsilons
    /\ geomOp' = "simplifyRDP"
    /\ geomOut' = simplifyRDP(points', geomEps')
    /\ UNCHANGED <<statsVars, floodVars, aiVars, videoVars, appVars>>

SimplifyRDPAI ==
    /\ geomOp = "none"
    /\ DrawPoints
    /\ geomEps' \in Epsilons
    /\ geomOp' = "simplifyRDPAI"
    /\ geomOut' = simplifyRDPAI(points', geomEps')
    /\ UNCHANGED <<statsVars, floodVars, aiVars, videoVars, appVars>>

CalculatePolygonArea ==
    /\ geomOp = "none"
    /\ DrawPoints
    /\ geomOp' = "calculatePolygonArea"
    /\ geomOut' = calculatePolygonArea(points')
    /\ UNCHANGED <<geomEps, statsVars, floodVars, aiVars, videoVars, appVars>>

NextGeom ==
    \/ ConvexHull
    \/ ConvexHullAI
    \/ SimplifyRDP
    \/ SimplifyRDPAI
    \/ CalculatePolygonArea

SpecGeom == InitGeom /\ [][NextGeom]_vars

----------------------------------------------------------------------------
(* Claims about the geometry kernel *)

RdpDone == geomOp \in {"simplifyRDP", "simplifyRDPAI"}
HullDone == geomOp \in {"convexHull", "convexHullAI"}
AreaDone == geomOp = "calculatePolygonArea"

\* C5: for a non-empty P and epsilon >= 0, simplifyRDP (either
\* implementation) returns a sequence that starts with P's first point and
\* ends with P's last point.  Every slice a recursive call receives is
\* itself one of the sequences drawn, so the property is checked at every
\* level of the recursion.
C5_EndpointsKept ==
    (RdpDone /\ points # <<>>) =>
        /\ geomOut # <<>>
        /\ geomOut[1] = points[1]
        /\ geomOut[Len(geomOut)] = points[Len(points)]

\* a run that split twice: four points in, four points out
C5_Witness ==
    /\ geomOp = "simplifyRDPAI"
    /\ Len(points) = 4
    /\ Len(geomOut) = 4
    /\ geomEps = EpsHalves(1)

\* a is b with some elements left out, the others in their order
RECURSIVE IsSubsequence(_, _)
IsSubsequence(a, b) ==
    IF a = <<>> THEN TRUE
    ELSE IF b = <<>> THEN FALSE
    ELSE IF Head(a) = Head(b) THEN IsSubsequence(Tail(a), Tail(b))
    ELSE IsSubsequence(a, Tail(b))

\* the implementation that ran, at another epsilon
RdpOf(pts, epsilon) ==
    IF geomOp = "simplifyRDPAI" THEN simplifyRDPAI(pts, epsilon)
    ELSE simplifyRDP(pts, epsilon)

\* C27: simplifyRDP (either implementation) is monotone in epsilon: the
\* result at a larger epsilon has no more vertices than the result at a
\* smaller one and is a subsequence of it, which is a subsequence of P.
C27_MonotoneInEpsilon ==
    RdpDone =>
        /\ IsSubsequence(geomOut, points)
        /\ \A e2 \in Epsilons :
               ~DistGt(geomEps, e2) =>
                   /\ Len(RdpOf(points, e2)) <= Len(geomOut)
                   /\ IsSubsequence(RdpOf(points, e2), geomOut)

\* four points kept at epsilon 0.5 of which a larger epsilon drops one
C27_Witness ==
    /\ RdpDone
    /\ geomEps = EpsHalves(1)
    /\ Len(geomOut) = 4
    /\ \E e2 \in Epsilons : DistGt(e2, geomEps) /\ Len(RdpOf(points, e2)) = 3

CyclicNext(seq, i) == seq[(i % Len(seq)) + 1]

\* C6: the sequence convexHull returns is strictly convex whenever it has
\* at least 3 points: all cyclically consecutive triples turn the same way
\* and none is collinear or repeats a point.
C6_StrictlyConvex ==
    (HullDone /\ Len(geomOut) >= 3) =>
        LET turn(i) == cross(geomOut[i], CyclicNext(geomOut, i),
                             CyclicNext(geomOut, i + 1))
        IN  \/ \A i \in 1..Len(geomOut) : turn(i) > 0
            \/ \A i \in 1..Len(geomOut) : turn(i) < 0

\* a hull of four corners out of an input with a duplicate
C6_Witness ==
    /\ geomOp = "convexHull"
    /\ Len(points) = 4
    /\ Len(geomOut) = 3
    /\ points[1] = points[4]
    /\ \E i \in 1..3 : cross(geomOut[i], CyclicNext(geomOut, i),
                             CyclicNext(geomOut, i + 1)) # 0

\* the sequence with the elements at i and i + 1 exchanged
SwapAdjacent(seq, i) ==
    [j \in 1..Len(seq) |->
        IF j = i THEN seq[i + 1] ELSE IF j = i + 1 THEN seq[i] ELSE seq[j]]

HullOf(pts) == IF geomOp = "convexHullAI" THEN convexHullAI(pts) ELSE convexHull(pts)

\* C7 as stated: convexHull returns the same sequence for any two orderings
\* of the same points, of any length including fewer than 3.  Two orderings
\* differ by a chain of exchanges of neighbours, and every sequence on the
\* chain is one of the sequences drawn, so it is stated for one exchange.
C7_OrderIndependentAnyLength ==
    HullDone =>
        \A i \in 1..(Len(points) - 1) : HullOf(SwapAdjacent(points, i)) = geomOut

\* C7 amended: for at least 3 points convexHull returns the same sequence
\* for any two orderings; fewer than 3 points are returned as given.
C7_OrderIndependentFrom3 ==
    HullDone =>
        /\ Len(points) >= 3 =>
               \A i \in 1..(Len(points) - 1) :
                   HullOf(SwapAdjacent(points, i)) = geomOut
        /\ Len(points) < 3 => geomOut = points

C7_Witness ==
    /\ geomOp = "convexHull"
    /\ Len(points) = 4
    /\ Len(geomOut) = 4
    /\ points[1].x > points[2].x
    /\ points[3].x = points[4].x /\ points[3].y > points[4].y

\* C8 as stated: the area of the reversed sequence has the magnitude of the
\* area of P and the opposite sign.
C8_ReversalNegates ==
    AreaDone =>
        LET rev == calculatePolygonArea(Reverse(points))
        IN  rev.d = geomOut.d /\ rev.n = -geomOut.n

\* C8 amended: the area of the reversed sequence equals the area of P, and
\* both are non-negative (calculatePolygonArea returns the absolute value).
C8_ReversalKeepsArea ==
    AreaDone =>
        /\ calculatePolygonArea(Reverse(points)) = geomOut
        /\ geomOut.n >= 0

C8_Witness ==
    /\ AreaDone
    /\ Len(points) = 4
    /\ geomOut = Num(2)
    /\ cross(points[1], points[2], points[3]) < 0

----------------------------------------------------------------------------
(* ColorAlgorithm.findBoundary of the region-grow segmenter, the loop of   *)
(* floodFill one iteration at a time                                       *)

InitFlood == StatsIdle /\ GeomIdle /\ FloodIdle /\ AiIdle /\ VideoIdle /\ AppIdle

PixelNumbers == 0..(Width * Height - 1)

\* the buffer with the pixels numbered in on in the foreground colour
Buffer(on) ==
    [i \in 1..(Width * Height) |-> IF (i - 1) \in on THEN Foreground ELSE Background]

\* findBoundary is called: the seed is rounded (a click gives 0 <= x <= width,
\* 0 <= y <= height) and floodFill runs up to its loop
FindBoundary ==
    /\ pc = "idle"
    /\ \E k \in ForegroundCounts : \E on \in [1..k -> PixelNumbers] :
         data' = Buffer(Range(on))
    /\ target' \in Targets
    /\ tol' \in Tolerances
    /\ \E hx \in 0..(2 * Width), hy \in 0..(2 * Height) :
         seedPoint' = Point(MathRound(hx), MathRound(hy))
    /\ LET st == floodFillStart(data', seedPoint', target', tol')
       IN  /\ start' = st.start
           /\ visited' = st.visited
           /\ queue' = st.queue
           /\ pc' = IF st.returns THEN "returned" ELSE "loop"
    /\ UNCHANGED <<outcome, statsVars, geomVars, aiVars, videoVars, appVars>>

\* one iteration of while (queue.length > 0)
FloodFillStep ==
    /\ pc = "loop"
    /\ Len(queue) > 0
    /\ LET current == Head(queue)
           st == Absorb(data, target, tol, neighbors(current.x, current.y), 1,
                        [visited |-> visited, queue |-> Tail(queue)])
       IN  /\ visited' = st.visited
           /\ queue' = st.queue
    /\ UNCHANGED <<data, target, tol, seedPoint, start, pc, outcome,
                   statsVars, geomVars, aiVars, videoVars, appVars>>

\* the loop ends: floodFill returns visited
FloodFillReturn ==
    /\ pc = "loop"
    /\ Len(queue) = 0
    /\ pc' = "returned"
    /\ UNCHANGED <<data, target, tol, seedPoint, start, visited, queue, outcome,
                   statsVars, geomVars, aiVars, videoVars, appVars>>

\* findBoundary goes on with the region: it rejects or resolves
FindBoundarySettle ==
    /\ pc = "returned"
    /\ \E epsilon \in Epsilons : outcome' = settle(visited, epsilon)
    /\ pc' = "done"
    /\ UNCHANGED <<data, target, tol, seedPoint, start, visited, queue,
                   statsVars, geomVars, aiVars, videoVars, appVars>>

NextFlood ==
    \/ FindBoundary
    \/ FloodFillStep
    \/ FloodFillReturn
    \/ FindBoundarySettle

SpecFlood == InitFlood /\ [][NextFlood]_vars

----------------------------------------------------------------------------
(* The mask segmenter: calls of findBoundary and scanFrame, one at a time  *)

InitMask == StatsIdle /\ GeomIdle /\ FloodIdle /\ AiIdle /\ VideoIdle /\ AppIdle

\* how many pixels of a mask drawn may be on
MaxOn == 24

MaskPixels == MODEL_SIZE * MODEL_SIZE

\* orders in which the pixels of the masks drawn are switched on: row by
\* row, from the last pixel back, every second pixel, the inner pixels
RowMajorOrder == [i \in 1..MaskPixels |-> i - 1]
ReverseOrder == [i \in 1..MaskPixels |-> MaskPixels - i]
IsScattered(idx) == ((idx % MODEL_SIZE) + (idx \div MODEL_SIZE)) % 2 = 0
ScatteredOrder == SelectSeq(RowMajorOrder, IsScattered)
IsInner(idx) ==
    /\ idx % MODEL_SIZE \in 1..(MODEL_SIZE - 2)
    /\ idx \div MODEL_SIZE \in 1..(MODEL_SIZE - 2)
InnerOrder == SelectSeq(RowMajorOrder, IsInner)
MaskOrders == {RowMajorOrder, ReverseOrder, ScatteredOrder, InnerOrder}

\* the mask with the first k pixels of an order on
MaskOf(order, k) ==
    [i \in 1..MaskPixels |->
        IF \E j \in 1..Len(order) : j <= k /\ order[j] = i - 1 THEN 1 ELSE 0]

\* the image sides drawn: the mask side and twice it
Sides == {MODEL_SIZE, 2 * MODEL_SIZE}

\* a smaller side, for which the scale is a fraction
SmallSide == MODEL_SIZE \div 2

\* the seed coordinates drawn along a side
SeedCoords(side) == {0, 1, side \div 2, side}

\* findBoundary(imageData, seedPoint, [], 0, epsilon) is called and awaits
\* loadModel
CallFindBoundary ==
    /\ aiPc = "idle"
    /\ aiOp' = "findBoundary"
    /\ \E w \in Sides, h \in Sides : imageSize' = [width |-> w, height |-> h]
    /\ \E x \in SeedCoords(imageSize'.width), y \in SeedCoords(imageSize'.height) :
         aiSeed' = Point(x, y)
    /\ aiEpsilon' \in Epsilons
    /\ aiPc' = "loadModel"
    /\ UNCHANGED <<model, maskData, aiOutcome, statsVars, geomVars, floodVars, videoVars,
                   appVars>>

\* scanFrame(imageData) is called and awaits loadModel
CallScanFrame ==
    /\ aiPc = "idle"
    /\ aiOp' = "scanFrame"
    /\ \E w \in Sides \cup {SmallSide}, h \in Sides \cup {SmallSide} :
         imageSize' = [width |-> w, height |-> h]
    /\ aiPc' = "loadModel"
    /\ UNCHANGED <<model, aiSeed, aiEpsilon, maskData, aiOutcome,
                   statsVars, geomVars, floodVars, videoVars, appVars>>

\* loadModel finds the model in place, or loads and warms it up
LoadModel ==
    /\ aiPc = "loadModel"
    /\ model' = "loaded"
    /\ aiPc' = "predict"
    /\ UNCHANGED <<aiOp, imageSize, aiSeed, aiEpsilon, maskData, aiOutcome,
                   statsVars, geomVars, floodVars, videoVars, appVars>>

\* loadModel catches a failure of the backend or of the download and throws
\* its own error, which the caller does not catch
LoadModelFails ==
    /\ aiPc = "loadModel"
    /\ model = "null"
    /\ aiOutcome' = [NoOutcome EXCEPT !.kind = "throws",
                                      !.error = "AI core failed to start"]
    /\ aiPc' = "done"
    /\ UNCHANGED <<model, aiOp, imageSize, aiSeed, aiEpsilon, maskData,
                   statsVars, geomVars, floodVars, videoVars, appVars>>

WholeScale(size) == size.width \in Sides /\ size.height \in Sides

\* the rest of the call: the model check, the prediction and the steps on
\* the mask
Predict ==
    /\ aiPc = "predict"
    /\ \E order \in MaskOrders, k \in 0..MaxOn :
         /\ maskData' = MaskOf(order, k)
         /\ aiOutcome' =
              IF model = "null"
              THEN [NoOutcome EXCEPT !.kind = "throws", !.error = "Model not ready"]
              ELSE IF aiOp = "findBoundary"
                   THEN findBoundaryAI(maskData', imageSize, aiSeed, aiEpsilon)
                   ELSE scanFrameAI(maskData', imageSize)
         /\ WholeScale(imageSize) \/ aiOutcome'.hullInput = <<>>
    /\ aiPc' = "done"
    /\ UNCHANGED <<model, aiOp, imageSize, aiSeed, aiEpsilon,
                   statsVars, geomVars, floodVars, videoVars, appVars>>

\* the caller has the outcome; the model stays
AiReturn ==
    /\ aiPc = "done"
    /\ aiOp' = "none"
    /\ aiPc' = "idle"
    /\ imageSize' = NoSize
    /\ aiSeed' = Point(0, 0)
    /\ aiEpsilon' = Dist(0, 1)
    /\ maskData' = <<>>
    /\ aiOutcome' = NoOutcome
    /\ UNCHANGED <<model, statsVars, geomVars, floodVars, videoVars, appVars>>

NextMask ==
    \/ CallFindBoundary
    \/ CallScanFrame
    \/ LoadModel
    \/ LoadModelFails
    \/ Predict
    \/ AiReturn

SpecMask == InitMask /\ [][NextMask]_vars

----------------------------------------------------------------------------
(* ColorAlgorithm.loadModel under calls of findBoundary and scanFrame that *)
(* overlap, one await at a time                                            *)

InitLoad == StatsIdle /\ GeomIdle /\ FloodIdle /\ AiIdle /\ VideoIdle /\ AppIdle

\* the awaits of loadModel, in order
LoadStages == <<"setBackend", "ready", "loadLayersModel">>

\* a click or a sampled frame calls findBoundary or scanFrame, which calls
\* loadModel: with no model in place it starts to load one
CallerStarts(c) ==
    /\ callerPc[c] = "idle"
    /\ callerPc' = [callerPc EXCEPT ![c] =
                       IF model = "null" THEN LoadStages[1] ELSE "predict"]
    /\ UNCHANGED <<loadCount, statsVars, geomVars, floodVars, aiVars, videoVars,
                   chatVars, pollVars>>

\* await tf.setBackend("cpu") is over
BackendSet(c) ==
    /\ callerPc[c] = "setBackend"
    /\ callerPc' = [callerPc EXCEPT ![c] = "ready"]
    /\ UNCHANGED <<loadCount, statsVars, geomVars, floodVars, aiVars, videoVars,
                   chatVars, pollVars>>

\* await tf.ready() is over
BackendReady(c) ==
    /\ callerPc[c] = "ready"
    /\ callerPc' = [callerPc EXCEPT ![c] = "loadLayersModel"]
    /\ UNCHANGED <<loadCount, statsVars, geomVars, floodVars, aiVars, videoVars,
                   chatVars, pollVars>>

\* await tf.loadLayersModel(...) is over: the model is stored and warmed up
ModelLoaded(c) ==
    /\ callerPc[c] = "loadLayersModel"
    /\ model' = "loaded"
    /\ loadCount' = loadCount + 1
    /\ callerPc' = [callerPc EXCEPT ![c] = "predict"]
    /\ UNCHANGED <<aiOp, aiPc, imageSize, aiSeed, aiEpsilon, maskData, aiOutcome,
                   statsVars, geomVars, floodVars, videoVars, chatVars,
                   pollVars>>

\* one of the awaits of loadModel rejects: loadModel throws and so does the
\* call
LoadThrows(c) ==
    /\ \E i \in 1..Len(LoadStages) : callerPc[c] = LoadStages[i]
    /\ callerPc' = [callerPc EXCEPT ![c] = "threw"]
    /\ UNCHANGED <<loadCount, statsVars, geomVars, floodVars, aiVars, videoVars,
                   chatVars, pollVars>>

\* the call predicts with the model and returns, or its caller catches
\* what it threw
CallerReturns(c) ==
    /\ callerPc[c] \in {"predict", "threw"}
    /\ callerPc' = [callerPc EXCEPT ![c] = "idle"]
    /\ UNCHANGED <<loadCount, statsVars, geomVars, floodVars, aiVars, videoVars,
                   chatVars, pollVars>>

NextLoad ==
    \/ \E c \in Callers : CallerStarts(c)
    \/ \E c \in Callers : BackendSet(c)
    \/ \E c \in Callers : BackendReady(c)
    \/ \E c \in Callers : ModelLoaded(c)
    \/ \E c \in Callers : LoadThrows(c)
    \/ \E c \in Callers : CallerReturns(c)

SpecLoad == InitLoad /\ [][NextLoad]_vars

----------------------------------------------------------------------------
(* The analysis tasks of the page: startAnalysis, the checkStatus loop one *)
(* await at a time, and handleStopAnalysis.  What a published result holds *)
(* is the subject of StartAnalysisPublishes above; here a publication is   *)
(* recorded as the outcome "published" of its task.                        *)

InitPoll == StatsIdle /\ GeomIdle /\ FloodIdle /\ AiIdle /\ VideoIdle /\ AppIdle

\* maxRetries of checkStatus
maxRetries == 10

\* the task's startAnalysis call has not returned
InProgress(t) == taskPc[t] \in {"top", "sleep", "fetch"}

\* the send button is shown, not the stop button
CanSend == ~isLoading /\ appState # "ANALYZING"

\* startAnalysis returns or throws: its catch and finally clauses
ends(t, how, state) ==
    /\ taskPc' = [taskPc EXCEPT ![t] = "done"]
    /\ taskOutcome' = [taskOutcome EXCEPT ![t] = how]
    /\ appState' = state
    /\ isLoading' = FALSE

\* the while loop of checkStatus goes round again
again(t, count) ==
    /\ taskPc' = [taskPc EXCEPT ![t] = "top"]
    /\ retryCount' = [retryCount EXCEPT ![t] = count]
    /\ UNCHANGED <<appState, isLoading, taskOutcome>>

\* startAnalysis for a video: the flag is cleared, the task is created on
\* the server and checkStatus is entered
StartAnalysis(t) ==
    /\ CanSend
    /\ taskPc[t] = "idle"
    /\ \A u \in Tasks : u < t => taskPc[u] # "idle"
    /\ shouldStop' = FALSE
    /\ appState' = "ANALYZING"
    /\ isLoading' = TRUE
    /\ taskPc' = [taskPc EXCEPT ![t] = "top"]
    /\ serverStatus' = [serverStatus EXCEPT ![t] = "processing"]
    /\ UNCHANGED <<retryCount, taskOutcome, stoppedTasks, sawFailed, pollsAfterFailed,
                   statsVars, geomVars, floodVars, aiVars, videoVars,
                   loadVars, chatVars>>

\* startAnalysis for a chat text: the flag is cleared, the reply is posted
StartChat ==
    /\ CanSend
    /\ shouldStop' = FALSE
    /\ UNCHANGED <<appState, isLoading, taskPc, retryCount, serverStatus, taskOutcome,
                   stoppedTasks, sawFailed, pollsAfterFailed,
                   statsVars, geomVars, floodVars, aiVars, videoVars,
                   loadVars, chatVars>>

\* handleStopAnalysis, the user confirming
HandleStopAnalysis ==
    /\ ~CanSend
    /\ shouldStop' = TRUE
    /\ isLoading' = FALSE
    /\ appState' = "READY"
    /\ stoppedTasks' = stoppedTasks \cup {t \in Tasks : InProgress(t)}
    /\ UNCHANGED <<taskPc, retryCount, serverStatus, taskOutcome, sawFailed,
                   pollsAfterFailed, statsVars, geomVars, floodVars, aiVars,
                   videoVars, loadVars, chatVars>>

\* the top of the loop: the flag is read, then the loop sleeps
CheckFlag(t) ==
    /\ taskPc[t] = "top"
    /\ IF shouldStop
       THEN /\ ends(t, "aborted", "READY")
            /\ UNCHANGED retryCount
       ELSE /\ taskPc' = [taskPc EXCEPT ![t] = "sleep"]
            /\ UNCHANGED <<appState, isLoading, taskOutcome, retryCount>>
    /\ UNCHANGED <<shouldStop, serverStatus, stoppedTasks, sawFailed, pollsAfterFailed,
                   statsVars, geomVars, floodVars, aiVars, videoVars,
                   loadVars, chatVars>>

\* the three seconds are over: the status request is sent
SendStatusRequest(t) ==
    /\ taskPc[t] = "sleep"
    /\ taskPc' = [taskPc EXCEPT ![t] = "fetch"]
    /\ pollsAfterFailed' = IF t \in sawFailed THEN pollsAfterFailed \cup {t}
                           ELSE pollsAfterFailed
    /\ UNCHANGED <<shouldStop, appState, isLoading, retryCount, serverStatus,
                   taskOutcome, stoppedTasks, sawFailed,
                   statsVars, geomVars, floodVars, aiVars, videoVars,
                   loadVars, chatVars>>

\* the request fails (the fetch rejects): the catch clause counts it
NetworkError(t) ==
    /\ taskPc[t] = "fetch"
    /\ IF retryCount[t] + 1 > maxRetries
       THEN /\ ends(t, "error shown", "READY")
            /\ retryCount' = [retryCount EXCEPT ![t] = retryCount[t] + 1]
       ELSE again(t, retryCount[t] + 1)
    /\ UNCHANGED <<shouldStop, serverStatus, stoppedTasks, sawFailed, pollsAfterFailed,
                   statsVars, geomVars, floodVars, aiVars, videoVars,
                   loadVars, chatVars>>

\* the response is not ok: counted, and past maxRetries the "Server
\* unstable" error is thrown inside the try block, whose catch clause counts
\* again
ResponseNotOk(t) ==
    /\ taskPc[t] = "fetch"
    /\ IF retryCount[t] + 1 > maxRetries
       THEN /\ ends(t, "error shown", "READY")
            /\ retryCount' = [retryCount EXCEPT ![t] = retryCount[t] + 2]
       ELSE again(t, retryCount[t] + 1)
    /\ UNCHANGED <<shouldStop, serverStatus, stoppedTasks, sawFailed, pollsAfterFailed,
                   statsVars, geomVars, floodVars, aiVars, videoVars,
                   loadVars, chatVars>>

\* the response says the task is still being processed
StatusProcessing(t) ==
    /\ taskPc[t] = "fetch"
    /\ serverStatus[t] = "processing"
    /\ again(t, 0)
    /\ UNCHANGED <<shouldStop, serverStatus, stoppedTasks, sawFailed, pollsAfterFailed,
                   statsVars, geomVars, floodVars, aiVars, videoVars,
                   loadVars, chatVars>>

\* the response says "completed": checkStatus returns the result, and
\* startAnalysis stores and posts it unless the flag is set
StatusCompleted(t) ==
    /\ taskPc[t] = "fetch"
    /\ serverStatus[t] = "completed"
    /\ retryCount' = [retryCount EXCEPT ![t] = 0]
    /\ IF shouldStop
       THEN ends(t, "dropped", appState)
       ELSE ends(t, "published", "DONE")
    /\ UNCHANGED <<shouldStop, serverStatus, stoppedTasks, sawFailed, pollsAfterFailed,
                   statsVars, geomVars, floodVars, aiVars, videoVars,
                   loadVars, chatVars>>

\* the response says "failed": the error is thrown inside the try block
\* and caught by its catch clause, which counts it as a retry
StatusFailed(t) ==
    /\ taskPc[t] = "fetch"
    /\ serverStatus[t] = "failed"
    /\ sawFailed' = sawFailed \cup {t}
    /\ IF 0 + 1 > maxRetries
       THEN /\ ends(t, "error shown", "READY")
            /\ retryCount' = [retryCount EXCEPT ![t] = 1]
       ELSE again(t, 0 + 1)
    /\ UNCHANGED <<shouldStop, serverStatus, stoppedTasks, pollsAfterFailed,
                   statsVars, geomVars, floodVars, aiVars, videoVars,
                   loadVars, chatVars>>

\* the server finishes the task, one way or the other
ServerFinishes(t) ==
    /\ serverStatus[t] = "processing"
    /\ \E status \in {"completed", "failed"} :
         serverStatus' = [serverStatus EXCEPT ![t] = status]
    /\ UNCHANGED <<shouldStop, appState, isLoading, taskPc, retryCount, taskOutcome,
                   stoppedTasks, sawFailed, pollsAfterFailed,
                   statsVars, geomVars, floodVars, aiVars, videoVars,
                   loadVars, chatVars>>

NextPoll ==
    \/ \E t \in Tasks : StartAnalysis(t)
    \/ StartChat
    \/ HandleStopAnalysis
    \/ \E t \in Tasks : CheckFlag(t)
    \/ \E t \in Tasks : SendStatusRequest(t)
    \/ \E t \in Tasks : NetworkError(t)
    \/ \E t \in Tasks : ResponseNotOk(t)
    \/ \E t \in Tasks : StatusProcessing(t)
    \/ \E t \in Tasks : StatusCompleted(t)
    \/ \E t \in Tasks : StatusFailed(t)
    \/ \E t \in Tasks : ServerFinishes(t)

SpecPoll == InitPoll /\ [][NextPoll]_vars

----------------------------------------------------------------------------
(* VideoAnalyzer.analyzeVideo: the handlers of the video element and the   *)
(* scanFrame call of each sample                                           *)

InitVideo == StatsIdle /\ GeomIdle /\ FloodIdle /\ AiIdle /\ VideoIdle /\ AppIdle

\* the longest video drawn, in seconds
MaxDuration == 3

\* the durations drawn: every half second up to the longest
Durations == {Rat(k, 2) : k \in 0..(2 * MaxDuration)}

\* the masks the model answers with for the frames: nothing, and a region
FrameMasks == {MaskOf(RowMajorOrder, 0), MaskOf(InnerOrder, MaxOn)}

\* the canvas sizes drawn
CanvasSizes == {[width |-> w, height |-> MODEL_SIZE] : w \in Sides}

\* what scanFrame returns for those masks, by canvas size
FrameAnalyses ==
    [size \in CanvasSizes |-> {scanFrameAI(mask, size) : mask \in FrameMasks}]

\* analyzeVideo(videoFile, onProgress) is called: the elements are made and
\* the promise is returned
AnalyzeVideo ==
    /\ promise = NoPromise
    /\ promise' = [state |-> "pending", value |-> <<>>]
    /\ UNCHANGED <<canvas, duration, currentTime, videoPos, pendingSeeks, scans,
                   results, progress, seekLog, events,
                   statsVars, geomVars, floodVars, aiVars, appVars>>

\* processNextFrame with currentTime = time: resolve(results), or assign
\* video.currentTime
ProcessNextFrame(time, length, list) ==
    IF finished(time, length)
    THEN /\ promise' = settled(promise, "resolved", list)
         /\ UNCHANGED <<pendingSeeks, seekLog>>
    ELSE /\ pendingSeeks' = Append(pendingSeeks, time)
         /\ seekLog' = Append(seekLog, time)
         /\ UNCHANGED promise

\* video.onloadeddata
LoadedData ==
    /\ promise.state = "pending"
    /\ canvas = NoSize
    /\ canvas' \in CanvasSizes
    /\ currentTime' = 0
    /\ \E length \in Durations :
         /\ duration' = length
         /\ ProcessNextFrame(0, length, results)
    /\ UNCHANGED <<videoPos, scans, results, progress, events,
                   statsVars, geomVars, floodVars, aiVars, appVars>>

\* fault variant of Seeked: scanFrame is not awaited, the next seek is
\* issued while the call is in flight
SeekedWithoutAwait ==
    /\ pendingSeeks # <<>>
    /\ ~finished(currentTime + interval, duration)
    /\ videoPos' = frameAt(Head(pendingSeeks), duration)
    /\ scans' = Append(scans, [frame |-> videoPos', stage |-> "loadModel"])
    /\ currentTime' = currentTime + interval
    /\ pendingSeeks' = Append(Tail(pendingSeeks), currentTime + interval)
    /\ seekLog' = Append(seekLog, currentTime + interval)
    /\ UNCHANGED <<promise, canvas, duration, results, progress,
                   events, statsVars, geomVars, floodVars, aiVars, appVars>>

\* video.onseeked up to its await: the frame shown is drawn and handed to
\* scanFrame, which awaits loadModel
Seeked ==
    /\ pendingSeeks # <<>>
    /\ videoPos' = frameAt(Head(pendingSeeks), duration)
    /\ pendingSeeks' = Tail(pendingSeeks)
    /\ scans' = Append(scans, [frame |-> videoPos', stage |-> "loadModel"])
    /\ UNCHANGED <<promise, canvas, duration, currentTime, results, progress,
                   seekLog, events, statsVars, geomVars, floodVars, aiVars, appVars>>

\* the rest of video.onseeked after the try statement
NextFrame(list) ==
    /\ scans' = Tail(scans)
    /\ currentTime' = currentTime + interval
    /\ ProcessNextFrame(currentTime + interval, duration, list)

\* loadModel of the scanFrame call finds the model or loads it
ScanLoadModel ==
    /\ scans # <<>>
    /\ Head(scans).stage = "loadModel"
    /\ model' = "loaded"
    /\ scans' = <<[Head(scans) EXCEPT !.stage = "predict"]>> \o Tail(scans)
    /\ UNCHANGED <<promise, canvas, duration, currentTime, videoPos, pendingSeeks,
                   results, progress, seekLog, events, statsVars, geomVars, floodVars,
                   aiOp, aiPc, imageSize, aiSeed, aiEpsilon, maskData, aiOutcome,
                   appVars>>

\* loadModel throws, scanFrame rejects and the catch clause logs the frame
ScanLoadModelFails ==
    /\ scans # <<>>
    /\ Head(scans).stage = "loadModel"
    /\ model = "null"
    /\ events' = events \cup {[kind |-> "loadModel failed", at |-> currentTime]}
    /\ NextFrame(results)
    /\ UNCHANGED <<canvas, duration, videoPos, results, progress,
                   statsVars, geomVars, floodVars, aiVars, appVars>>

\* scanFrame returns: the result is pushed and reported
ScanReturns ==
    /\ scans # <<>>
    /\ Head(scans).stage = "predict"
    /\ \E analysis \in FrameAnalyses[canvas] :
         LET resultItem == resultItemOf(currentTime, analysis)
         IN  /\ results' = Append(results, resultItem)
             /\ progress' = Append(progress,
                    [percent |-> percentOf(currentTime, duration),
                     result |-> resultItem])
             /\ NextFrame(Append(results, resultItem))
    /\ UNCHANGED <<canvas, duration, videoPos, events,
                   statsVars, geomVars, floodVars, aiVars, appVars>>

\* fault variant of ScanThrows: no catch clause, the handler ends with the
\* exception and the next frame is never asked for
ScanThrowsUncaught ==
    /\ scans # <<>>
    /\ Head(scans).stage = "predict"
    /\ events' = events \cup {[kind |-> "scanFrame threw", at |-> currentTime]}
    /\ scans' = Tail(scans)
    /\ UNCHANGED <<promise, canvas, duration, currentTime, videoPos, pendingSeeks,
                   results, progress, seekLog,
                   statsVars, geomVars, floodVars, aiVars, appVars>>

\* scanFrame throws after loadModel, and the catch clause logs the frame
ScanThrows ==
    /\ scans # <<>>
    /\ Head(scans).stage = "predict"
    /\ events' = events \cup {[kind |-> "scanFrame threw", at |-> currentTime]}
    /\ NextFrame(results)
    /\ UNCHANGED <<canvas, duration, videoPos, results, progress,
                   statsVars, geomVars, floodVars, aiVars, appVars>>

\* video.onerror: the file cannot be loaded, or a seek fails
VideoError ==
    /\ promise.state = "pending"
    /\ canvas = NoSize \/ pendingSeeks # <<>>
    /\ promise' = settled(promise, "rejected", <<>>)
    /\ pendingSeeks' = IF pendingSeeks # <<>> THEN Tail(pendingSeeks) ELSE pendingSeeks
    /\ events' = events \cup
          {[kind |-> IF canvas = NoSize THEN "load failed" ELSE "seek failed",
            at |-> currentTime]}
    /\ UNCHANGED <<canvas, duration, currentTime, videoPos, scans, results, progress,
                   seekLog, statsVars, geomVars, floodVars, aiVars, appVars>>

\* the user asks for the analysis to stop; analyzeVideo takes no flag and
\* reads none
RequestCancel ==
    /\ promise.state = "pending"
    /\ \A e \in events : e.kind # "cancel requested"
    /\ events' = events \cup {[kind |-> "cancel requested", at |-> currentTime]}
    /\ UNCHANGED <<promise, canvas, duration, currentTime, videoPos, pendingSeeks,
                   scans, results, progress, seekLog,
                   statsVars, geomVars, floodVars, aiVars, appVars>>

NextVideo ==
    \/ AnalyzeVideo
    \/ LoadedData
    \/ Seeked
    \/ ScanLoadModel
    \/ ScanLoadModelFails
    \/ ScanReturns
    \/ ScanThrows
    \/ VideoError
    \/ RequestCancel

SpecVideo == InitVideo /\ [][NextVideo]_vars

\* every seek issued settles and every scanFrame call settles
SpecVideoLive ==
    /\ InitVideo
    /\ [][NextVideo]_vars
    /\ WF_vars(Seeked)
    /\ WF_vars(ScanLoadModel \/ ScanLoadModelFails)
    /\ WF_vars(ScanReturns \/ ScanThrows)

----------------------------------------------------------------------------
(* Claims about SummaryManager *)

\* the records of the collection that count: area present, parsed area > 0
ValidRecords ==
    { annotationsMap[i] : i \in
        { j \in DOMAIN annotationsMap :
            /\ annotationsMap[j].area \notin {Undefined, <<>>}
            /\ LET a == parseFloat(annotationsMap[j].area)
               IN  a.d > 0 /\ a.n > 0 } }

StatsDone == stats # NoStats

\* areas p and q as numbers: p <= q
AreaLe(p, q) ==
    LET a == parseFloat(p.area)
        b == parseFloat(q.area)
    IN  a.n * b.d <= b.n * a.d

\* 100 * (mx - mn) / mx, computed in one step from the two parsed areas
PercentBetween(mn, mx) ==
    Rat(100 * (mx.n * mn.d - mn.n * mx.d), mx.n * mn.d)

AreasAre(set) == { r.area : r \in ValidRecords } = set

\* C1: with at least two valid records calculateStats returns a record of
\* minimum area as smallest, a record of maximum area as largest,
\* obstructionPercent = (largest - smallest) / largest * 100, and voteScore 2
\* above 75, 1 from 50 to 75 inclusive, 0 below; areas 100000 and 25000 give
\* exactly 75 and score 1.
C1_MinMaxPercentScore ==
    (StatsDone /\ Cardinality(ValidRecords) >= 2) =>
        LET pct == stats.obstructionPercent
        IN  /\ stats.smallest \in ValidRecords
            /\ stats.largest \in ValidRecords
            /\ \A r \in ValidRecords :
                   AreaLe(stats.smallest, r) /\ AreaLe(r, stats.largest)
            /\ pct = PercentBetween(parseFloat(stats.smallest.area),
                                    parseFloat(stats.largest.area))
            /\ stats.voteScore =
                   IF pct.n > 75 * pct.d THEN 2
                   ELSE IF pct.n >= 50 * pct.d THEN 1
                   ELSE 0
            /\ AreasAre({<<"1", "0", "0", "0", "0", "0">>,
                         <<"2", "5", "0", "0", "0">>})
                   => pct = Num(75) /\ stats.voteScore = 1

C1_Witness ==
    /\ StatsDone
    /\ Len(annotationsMap) = 3
    /\ AreasAre({<<"1", "0", "0", "0", "0", "0">>, <<"2", "5", "0", "0", "0">>})
    /\ stats.voteScore = 1

\* C2: with fewer than two valid records calculateStats returns a result
\* whose error marker is set, with obstructionPercent 0, voteScore 0 and
\* smallest = largest = the single valid record, or a placeholder of area "0"
\* when there is none; the marker is set in no other case.
C2_DegenerateResult ==
    StatsDone =>
        /\ stats.error <=> Cardinality(ValidRecords) < 2
        /\ Cardinality(ValidRecords) < 2 =>
               /\ stats.obstructionPercent = Num(0)
               /\ stats.voteScore = 0
               /\ stats.smallest = stats.largest
               /\ Cardinality(ValidRecords) = 1 => stats.smallest \in ValidRecords
               /\ Cardinality(ValidRecords) = 0 =>
                      /\ stats.smallest.area = <<"0">>
                      /\ stats.smallest = Placeholder

C2_Witness ==
    /\ StatsDone
    /\ stats.error
    /\ Len(annotationsMap) = 3
    /\ Cardinality(ValidRecords) = 1
    /\ stats.largest \in ValidRecords

\* C3: every result of calculateStats has 0 <= obstructionPercent <= 100 and
\* voteScore in {0, 1, 2}.
C3_PercentAndScoreRange ==
    StatsDone =>
        /\ stats.obstructionPercent.d > 0
        /\ stats.obstructionPercent.n >= 0
        /\ stats.obstructionPercent.n <= 100 * stats.obstructionPercent.d
        /\ stats.voteScore \in {0, 1, 2}

C3_Witness ==
    /\ StatsDone
    /\ ~stats.error
    /\ stats.voteScore = 2
    /\ \E r \in Range(annotationsMap) : r \notin ValidRecords

\* C4: classifyArea maps a < 10000 to S, 10000 <= a < 90000 to M,
\* 90000 <= a < 400000 to L and a >= 400000 to XL; 9999 is S, 10000 is M,
\* 90000 is L, 400000 is XL.
C4_Buckets ==
    areaClass # NoClass =>
        LET a == IF areaArg.type = "string" THEN parseFloat(areaArg.str)
                 ELSE areaArg.num
        IN  /\ areaClass \in {BucketS, BucketM, BucketL, BucketXL}
            /\ a.d > 0 =>
                   /\ areaClass = BucketS <=> a.n < 10000 * a.d
                   /\ areaClass = BucketM <=>
                          (a.n >= 10000 * a.d /\ a.n < 90000 * a.d)
                   /\ areaClass = BucketL <=>
                          (a.n >= 90000 * a.d /\ a.n < 400000 * a.d)
                   /\ areaClass = BucketXL <=> a.n >= 400000 * a.d
            /\ areaArg = NumberArg(Num(9999)) => areaClass = BucketS
            /\ areaArg = NumberArg(Num(10000)) => areaClass = BucketM
            /\ areaArg = NumberArg(Num(90000)) => areaClass = BucketL
            /\ areaArg = NumberArg(Num(400000)) => areaClass = BucketXL

C4_Witness ==
    /\ areaArg = NumberArg(Num(10000))
    /\ areaClass = BucketM


----------------------------------------------------------------------------
(* Claims about the region-grow segmenter *)

FloodDone == pc = "done"

Pixels == {Point(x, y) : x \in 0..(Width - 1), y \in 0..(Height - 1)}

\* the pixel at p has the target colour within the tolerance
Matches(p) == MatchAt(data, getIndex(p.x, p.y), target, tol)

\* what floodFill read for the seed it was given
SeedMatches == Matches(seedPoint)

\* the in-bounds pixels of the 5x5 window centred on the seed
Window ==
    {p \in Pixels : /\ p.x >= seedPoint.x - 2 /\ p.x <= seedPoint.x + 2
                    /\ p.y >= seedPoint.y - 2 /\ p.y <= seedPoint.y + 2}

WindowMatches == {p \in Window : Matches(p)}

\* the first pixel of a non-empty set in row-major order
FirstRowMajor(set) ==
    CHOOSE p \in set : \A q \in set : p.y < q.y \/ (p.y = q.y /\ p.x <= q.x)

Adjacent(p, q) ==
    \/ (p.x = q.x /\ Abs(p.y - q.y) = 1)
    \/ (p.y = q.y /\ Abs(p.x - q.x) = 1)

\* the matching pixels joined to the pixels of set by 4-neighbour steps
\* through matching pixels
RECURSIVE Grow(_)
Grow(set) ==
    LET more == set \cup {q \in Pixels : Matches(q) /\ \E p \in set : Adjacent(p, q)}
    IN  IF more = set THEN set ELSE Grow(more)

VisitedPixels == {ParseKey(visited[i]) : i \in 1..Len(visited)}

\* C9: when the seed pixel does not match and an in-bounds pixel of the 5x5
\* window around it does, the region returned is the one grown from the
\* first such pixel in row-major order, and from nothing else.
C9_GrowsFromFirstWindowMatch ==
    (FloodDone /\ ~SeedMatches /\ WindowMatches # {})
        => VisitedPixels = Grow({FirstRowMajor(WindowMatches)})

\* C10: when neither the seed pixel nor any in-bounds pixel of the 5x5 window
\* matches, floodFill returns the empty set, whatever lies outside the
\* window, and findBoundary rejects with the no-matching-region error.
C10_NoMatchInWindowRejects ==
    (FloodDone /\ ~SeedMatches /\ WindowMatches = {})
        => /\ visited = <<>>
           /\ outcome = Rejected("no matching colour region")

\* a finished call whose window held no match while a pixel outside it
\* matched the target
C10_Witness ==
    /\ FloodDone /\ ~SeedMatches /\ WindowMatches = {}
    /\ InBounds(seedPoint.x, seedPoint.y)
    /\ \E p \in Pixels \ Window : Matches(p)
    /\ outcome = Rejected("no matching colour region")

\* C20: every pixel of the set floodFill returns, the seed included, is
\* inside the buffer and within the tolerance of the target colour, for
\* every seed with 0 <= x <= width and 0 <= y <= height.
C20_RegionInBoundsAndMatching ==
    FloodDone =>
        \A p \in VisitedPixels : InBounds(p.x, p.y) /\ Matches(p)

\* the 4-connected component of matching pixels that holds p, empty when p
\* is outside the buffer or does not match
Component(p) ==
    IF InBounds(p.x, p.y) /\ Matches(p) THEN Grow({p}) ELSE {}

\* C21: for a seed inside the buffer, the set floodFill returns is one
\* 4-connected component of matching pixels, that of the seed given or of
\* a pixel of the window it moved to: every matching pixel joined to it
\* through matching 4-neighbours and no other pixel; it is empty only when
\* there is no such pixel.
C21_RegionIsOneComponent ==
    (FloodDone /\ InBounds(seedPoint.x, seedPoint.y))
        => \/ VisitedPixels = {} /\ ~SeedMatches
           \/ \E p \in Window : VisitedPixels # {} /\ VisitedPixels = Component(p)

\* the most keys the visited set can hold: one for each pixel, and one for
\* a seed on the right or bottom border (x = width or y = height)
MostVisited == Width * Height + 1

\* what is left to do: the keys not yet in the visited set, counted twice,
\* and the points waiting on the queue; it falls with every turn of the
\* loop and is never negative
WorkLeft == 2 * (MostVisited - Len(visited)) + Len(queue)

\* the points a turn of the loop put on the queue
Enqueued(before, after) == SubSeq(after, Len(before), Len(after))

\* every point on the queue is there once and, the seed given apart, was
\* marked visited when it was put there
QueuedOnce ==
    /\ \A i, j \in 1..Len(queue) : i # j => queue[i] # queue[j]
    /\ \A i \in 1..Len(queue) :
           queue[i] = seedPoint \/ Has(visited, key(queue[i].x, queue[i].y))

ContourTraced == FloodDone /\ visited # <<>>

\* the 4-neighbours of p, in or out of bounds
Neighbours4(p) ==
    {Point(p.x, p.y - 1), Point(p.x + 1, p.y), Point(p.x, p.y + 1), Point(p.x - 1, p.y)}

\* the absorbed pixels with a 4-neighbour out of bounds or not absorbed
EdgeOfRegion ==
    {p \in VisitedPixels :
        \E n \in Neighbours4(p) : ~InBounds(n.x, n.y) \/ n \notin VisitedPixels}

OuterRing ==
    {p \in Pixels : p.x = 0 \/ p.x = Width - 1 \/ p.y = 0 \/ p.y = Height - 1}

NoRepeats(seq) == \A i, j \in 1..Len(seq) : seq[i] = seq[j] => i = j

\* C11: traceContour returns, each exactly once, precisely the absorbed
\* pixels with a 4-neighbour out of bounds or not absorbed; when the
\* region is the whole buffer that is the outer ring, which is not empty.
C11_ContourIsEdgeOfRegion ==
    ContourTraced =>
        LET boundaryPixels == traceContour(visited)
        IN  /\ NoRepeats(boundaryPixels)
            /\ Range(boundaryPixels) = EdgeOfRegion
            /\ VisitedPixels = Pixels =>
                   (Range(boundaryPixels) = OuterRing /\ boundaryPixels # <<>>)

\* a whole buffer absorbed, its ring traced and its inner pixels left out
C11_Witness ==
    /\ ContourTraced
    /\ VisitedPixels = Pixels
    /\ Range(traceContour(visited)) = OuterRing
    /\ OuterRing # Pixels
    /\ outcome.kind = "resolved"


----------------------------------------------------------------------------
(* Claims about the mask segmenter *)

FindBoundaryDone == aiPc = "done" /\ aiOp = "findBoundary"
ScanFrameDone == aiPc = "done" /\ aiOp = "scanFrame"

\* the boundary pixels of the mask, as extractEdgesFromMask lists them
MaskEdges == Range(extractEdgesFromMask(maskData, MODEL_SIZE, MODEL_SIZE))

\* p is nearer than MODEL_SIZE / 2 to the seed mapped into mask space,
\* (seed.x * MODEL_SIZE / width, seed.y * MODEL_SIZE / height), in whole
\* numbers: both sides of the comparison squared and multiplied by
\* 4 * width^2 * height^2
NearSeed(p) ==
    LET w == imageSize.width
        h == imageSize.height
        ex == p.x * w - aiSeed.x * MODEL_SIZE
        ey == p.y * h - aiSeed.y * MODEL_SIZE
    IN  4 * h * h * ex * ex + 4 * w * w * ey * ey
            < MODEL_SIZE * MODEL_SIZE * w * w * h * h

NearEdges == {p \in MaskEdges : NearSeed(p)}

\* C12: in seeded mask mode the hull is computed from the mask boundary
\* pixels nearer than MODEL_SIZE / 2 to the seed in mask space when there
\* are at least 11 of them and from all mask boundary pixels otherwise;
\* with the model loaded the call fails with the no-region error exactly
\* when the mask has no boundary pixel.
C12_SeededHullInput ==
    (FindBoundaryDone /\ model = "loaded") =>
        /\ (aiOutcome.kind = "throws" /\ aiOutcome.error = "no region detected")
               <=> MaskEdges = {}
        /\ aiOutcome.kind = "throws" <=> MaskEdges = {}
        /\ MaskEdges # {} =>
               /\ Range(aiOutcome.hullInput) =
                      IF Cardinality(NearEdges) >= 11 THEN NearEdges ELSE MaskEdges
               /\ NoRepeats(aiOutcome.hullInput)

\* a call whose hull came from 11 or more near pixels, with others left out
C12_Witness ==
    /\ FindBoundaryDone
    /\ aiOutcome.kind = "returns"
    /\ Cardinality(NearEdges) >= 11
    /\ NearEdges # MaskEdges
    /\ Range(aiOutcome.hullInput) = NearEdges

\* a call whose hull came from all boundary pixels, 10 of them being near
C12_WitnessFallback ==
    /\ FindBoundaryDone
    /\ aiOutcome.kind = "returns"
    /\ Cardinality(NearEdges) = 10
    /\ NearEdges # MaskEdges
    /\ Range(aiOutcome.hullInput) = MaskEdges

\* the pixel (x, y) of the mask is on
MaskOn(x, y) == maskData[y * MODEL_SIZE + x + 1] # 0

\* the pixels off the outermost ring
Interior == {Point(x, y) : x \in 1..(MODEL_SIZE - 2), y \in 1..(MODEL_SIZE - 2)}

\* the interior pixels that are on and have a 4-neighbour that is off
InteriorEdges ==
    {p \in Interior :
        /\ MaskOn(p.x, p.y)
        /\ \E q \in Neighbours4(p) : ~MaskOn(q.x, q.y)}

\* a sequence of points in row-major scan order, each before the next
RowMajor(pts) ==
    \A i, j \in 1..Len(pts) :
        i < j => \/ pts[i].y < pts[j].y
                 \/ (pts[i].y = pts[j].y /\ pts[i].x < pts[j].x)

\* C23: extractEdgesFromMask returns, in row-major scan order and with no
\* point twice, exactly the pixels off the outermost ring that are on and
\* have an off 4-neighbour; nothing when no such pixel is on.
C23_InteriorEdgesInScanOrder ==
    aiPc = "done" /\ maskData # <<>> =>
        LET edges == extractEdgesFromMask(maskData, MODEL_SIZE, MODEL_SIZE)
        IN  /\ RowMajor(edges)
            /\ Range(edges) = InteriorEdges
            /\ (\A p \in Interior : ~MaskOn(p.x, p.y)) => edges = <<>>

\* a mask with on pixels on the outermost ring, an on pixel inside with
\* all four neighbours on, and edge pixels in more than one row
C23_Witness ==
    /\ aiPc = "done"
    /\ maskData # <<>>
    /\ \E x \in 0..(MODEL_SIZE - 1) : MaskOn(x, 0)
    /\ \E p \in Interior \ InteriorEdges : MaskOn(p.x, p.y)
    /\ \E p, q \in InteriorEdges : p.y # q.y


\* the on pixels of the mask, border pixels included
OnPixels == {i \in 1..Len(maskData) : maskData[i] # 0}

BorderOn == \E i \in OnPixels : ~IsInner(i - 1)

\* tenths is the whole number nearest to 10 * count * scaleX * scaleY, the
\* larger one on a tie; in whole numbers, with scale = side / MODEL_SIZE
NearestTenths(tenths, count) ==
    LET m2 == MODEL_SIZE * MODEL_SIZE
        exact20 == 20 * count * imageSize.width * imageSize.height
    IN  /\ 2 * tenths * m2 <= exact20 + m2
        /\ exact20 + m2 < 2 * (tenths + 1) * m2

\* C13: scanFrame reports the number of on pixels, border pixels included,
\* times scaleX * scaleY, rounded to one decimal, whatever the polygon;
\* with 20 on pixels or fewer the polygon is empty and extractEdgesFromMask,
\* convexHull and simplifyRDP are not called.
C13_AreaAndSmallMasks ==
    ScanFrameDone /\ aiOutcome.kind = "returns" =>
        /\ \E tenths \in 0..(10 * 4 * MaskPixels) :
               /\ aiOutcome.area = Rat(tenths, 10)
               /\ NearestTenths(tenths, Cardinality(OnPixels))
        /\ Cardinality(OnPixels) <= 20 =>
               (aiOutcome.polygon = <<>> /\ aiOutcome.calls = <<>>)

\* a scan of a mask of at most 20 on pixels, one of them on the border,
\* whose area is rounded up to the next tenth
C13_Witness ==
    /\ ScanFrameDone
    /\ aiOutcome.kind = "returns"
    /\ Cardinality(OnPixels) \in 1..20
    /\ BorderOn
    /\ 10 * Cardinality(OnPixels) * imageSize.width * imageSize.height
           < aiOutcome.area.n * (10 \div aiOutcome.area.d) * MODEL_SIZE * MODEL_SIZE
    /\ aiOutcome.polygon = <<>>
    /\ aiOutcome.calls = <<>>

\* a scan of a mask of more than 20 on pixels that returned a polygon
C13_WitnessLarge ==
    /\ ScanFrameDone
    /\ Cardinality(OnPixels) > 20
    /\ BorderOn
    /\ Len(aiOutcome.polygon) >= 3
    /\ aiOutcome.area = Num(4 * Cardinality(OnPixels))

\* the epsilon of the call: the caller's in findBoundary, 3.0 in scanFrame
EpsilonOfCall == IF aiOp = "findBoundary" THEN aiEpsilon ELSE ScanEpsilon

\* C24: the polygon of both mask modes is the hull of the boundary points,
\* simplified with the epsilon of the call in mask coordinates, and then
\* scaled by (scaleX, scaleY): simplification comes before rescaling.
C24_SimplifyThenRescale ==
    (aiPc = "done" /\ aiOutcome.kind = "returns" /\ aiOutcome.hullInput # <<>>) =>
        aiOutcome.polygon =
            originalSize(simplifyRDPAI(convexHullAI(aiOutcome.hullInput), EpsilonOfCall),
                         scaleOf(imageSize.width), scaleOf(imageSize.height))


----------------------------------------------------------------------------
(* Claims about the video analyzer *)

VideoLoaded == canvas # NoSize
VideoResolved == promise.state = "resolved"
Happened(kind) == \E e \in events : e.kind = kind

\* the time of a result, as a number
TimeOf(item) == parseFloat(item.time)

\* the seeks so far are to 0, 1, 2, ... in that order, none past the end
SeeksInOrder ==
    /\ \A i \in 1..Len(seekLog) : seekLog[i] = i - 1
    /\ \A i \in 1..Len(seekLog) : RLe(Num(seekLog[i]), duration)

\* every whole second up to the duration, the duration included, was sought
SeeksComplete ==
    \A t \in 0..(MaxDuration + 1) :
        RLe(Num(t), duration) => \E i \in 1..Len(seekLog) : seekLog[i] = t

\* the times of a list of results increase and are times that were sought
OrderedSamples(list) ==
    /\ \A i, j \in 1..Len(list) : i < j => RLt(TimeOf(list[i]), TimeOf(list[j]))
    /\ \A i \in 1..Len(list) :
           \E k \in 1..Len(seekLog) : TimeOf(list[i]) = Num(seekLog[k])

C14_Safety ==
    /\ VideoLoaded => SeeksInOrder
    /\ OrderedSamples(results)
    /\ VideoResolved =>
           /\ SeeksComplete
           /\ promise.value = results

C15_OneSeekOneScan ==
    /\ Len(pendingSeeks) <= 1
    /\ Len(scans) <= 1
    /\ ~(pendingSeeks # <<>> /\ scans # <<>>)
    /\ \A i \in 1..Len(pendingSeeks) : pendingSeeks[i] = currentTime
    /\ \A i \in 1..Len(scans) : scans[i].frame = Num(currentTime)
    /\ scans # <<>> => videoPos = Num(currentTime)

\* the frame of a later second in a scanFrame call, earlier results in hand
C15_Witness ==
    /\ Len(scans) = 1
    /\ currentTime >= 2
    /\ scans[1].frame = Num(currentTime)
    /\ scans[1].stage = "predict"
    /\ Len(results) >= 1
    /\ pendingSeeks = <<>>


\* the timestamps whose scanFrame call threw
ThrownAt == {e.at : e \in {f \in events : f.kind = "scanFrame threw"}}
Sought == {seekLog[i] : i \in 1..Len(seekLog)}
ResultTimes(list) == {TimeOf(list[i]) : i \in 1..Len(list)}

\* C16: when scanFrame throws for a frame, no result and no progress report
\* carry its timestamp, the next timestamp is sought (or the run ends, past
\* the duration), the promise is not rejected by it, and the resolved list
\* holds the result of every other frame whose call returned.
C16_ThrownFrameSkipped ==
    \A t \in ThrownAt :
        /\ Num(t) \notin ResultTimes(results)
        /\ \A i \in 1..Len(progress) : TimeOf(progress[i].result) # Num(t)
        /\ scans = <<>> => (t + interval \in Sought \/ VideoResolved)
        /\ promise.state = "rejected" => Happened("seek failed")
        /\ VideoResolved =>
               /\ promise.value = results
               /\ \A s \in Sought :
                      (Num(s) \in ResultTimes(promise.value))
                         <=> ~(s \in ThrownAt \/ \E e \in events :
                                   e.kind = "loadModel failed" /\ e.at = s)

\* a resolved run in which a frame in the middle threw and the frames
\* before and after it gave results
C16_Witness ==
    /\ VideoResolved
    /\ \E t \in ThrownAt :
           /\ Num(t - interval) \in ResultTimes(promise.value)
           /\ Num(t + interval) \in ResultTimes(promise.value)


\* the timestamps at which an event of a kind happened
TimesOf(kind) == {e.at : e \in {f \in events : f.kind = kind}}

\* C17: a seek that fails costs only its own frame: the run is not aborted
\* (the promise is not rejected), the next timestamp is sought or the run
\* resolves, and the results produced before it stay in the list.
C17_SeekFailureSkipsFrame ==
    \A t \in TimesOf("seek failed") :
        /\ promise.state # "rejected"
        /\ t + interval \in Sought \/ VideoResolved

\* C18: a loadModel failure inside analyzeVideo ends the run: no seek is
\* issued after it, and the promise is not resolved as if the frame had
\* merely been skipped.
C18_LoadModelFailureIsFatal ==
    \A t \in TimesOf("loadModel failed") :
        /\ t + interval \notin Sought
        /\ ~VideoResolved

\* C19: once cancellation has been requested during the frame of a
\* timestamp, no later timestamp is sought and no later frame is handed to
\* scanFrame.
C19_NoSeekAfterCancel ==
    \A t \in TimesOf("cancel requested") :
        /\ \A s \in Sought : s <= t
        /\ \A i \in 1..Len(scans) : RLe(scans[i].frame, Num(t))


----------------------------------------------------------------------------
(* Claims about loadModel *)

\* C25: whatever the interleaving of the calls of findBoundary and
\* scanFrame, the model is loaded and warmed up at most once.
C25_LoadedAtMostOnce == loadCount <= 1


----------------------------------------------------------------------------
(* Claims about the messages of the page *)

\* the rule of the severity score: 2 above 75, 1 from 50 on, else 0
SeverityOf(obstructionPercent) ==
    IF RGt(obstructionPercent, Num(75)) THEN 2
    ELSE IF RGe(obstructionPercent, Num(50)) THEN 1
    ELSE 0

\* C26: every analysis result posted, by startAnalysis or after an edit,
\* carries the severity score its obstruction percentage has by the one
\* rule; a percentage of exactly 50 scores 1 on both paths.
C26_OneSeverityRule ==
    published # NoMessage =>
        published.voteScore = SeverityOf(published.obstructionPercent)


\* C30: the records calculateStats returns are objects of their own: after
\* handleModalSave has assigned srcDataUrl on the returned largest and
\* smallest, every record stored in the collection still has the
\* srcDataUrl it had, and each returned record has its own overlay.
C30_ResultSharesNoRecord ==
    published.by = "handleModalSave" =>
        /\ \A i \in DOMAIN srcDataUrls : srcDataUrls[i] = FrameImage
        /\ published.largestUrl = OverlayOf("largest")
        /\ published.smallestUrl = OverlayOf("smallest")


----------------------------------------------------------------------------
(* Claims about the analysis tasks of the page *)

\* C28: an analysis the user has stopped never stores its records, posts
\* its result or moves the page to DONE, whatever the user does next.
C28_StoppedNeverPublishes ==
    \A t \in stoppedTasks : taskOutcome[t] # "published"

\* C29: after a status "failed" has been received for a task no further
\* status request is sent for it.
C29_NoPollAfterFailed == pollsAfterFailed = {}

====
